---- MODULE Spec2Model ----
(***************************************************************************)
(* A model of the request routing and translation kernel of the           *)
(* claude-code-proxy: the agent router (model_router.go), the provider     *)
(* clients' response translators (provider/*.go) and the Messages          *)
(* pipeline (handler/handlers.go).                                         *)
(*                                                                         *)
(* Go strings are modelled as sequences of one-character strings, so that  *)
(* strings.Index, strings.HasPrefix and strings.TrimSpace are computed on  *)
(* the characters and not assumed.                                         *)
(***************************************************************************)
EXTENDS Integers, Sequences, FiniteSets, TLC

VARIABLES
    \* ---- fingerprinting (ModelRouter.extractStaticPrompt / hashString)
    fpT,          \* the system-prompt text T
    fpS,          \* a suffix S that begins with a Notes: marker
    fpOut,        \* once done: t = fingerprint(T), ts = fingerprint(T + S)
    \* ---- prefix table (ModelRouter.getProviderNameForModel)
    pmModel,      \* a model name
    pmOut,        \* once done: the provider name resolved for pmModel
    \* ---- ModelRouter and DetermineRoute
    router,       \* the ModelRouter after NewModelRouter
    request,      \* the AnthropicRequest handed to DetermineRoute
    outcome,      \* the (decision, error) pair the last call returned
    routeLog,     \* one entry per call: the request and router before and after, and the result
    calls,        \* number of DetermineRoute calls made
    \* ---- provider stream translators
    stProvider,   \* the provider client whose translator runs
    stUpstream,   \* the upstream body: its SSE lines, and whether the last one ends in "\n"
    stPos,        \* number of upstream lines the worker has consumed
    stPipe,       \* what the worker has written to the pipe so far
    stPc,         \* "run" while the worker reads, "closed" after pw.Close()
    stBodyClosed, \* the upstream body was closed by someone other than the worker
    \* ---- Messages pipeline
    hReq,         \* the inbound HTTP request
    hUp,          \* the upstream's behaviour for this request
    hPc,          \* the handler's position
    hClient,      \* what was written to the client: status (0: nothing yet) and body
    hStore,       \* Persistence: the request's row and the calls made on it
    hUpCalls,     \* number of HTTP calls made to the upstream
    hResp,        \* the provider client's response held by the handler
    hStream,      \* the accumulators of handleStreamingResponse's loop
    \* ---- the upstream request a provider client builds
    fwReq,        \* the inbound header names, the provider client, its configuration
    fwOut,        \* once sent: the headers of the upstream request, each with its origin
    \* ---- POST /v1/chat/completions
    ccReq,        \* the inbound request
    ccPc,         \* the handler's position
    ccClient,     \* what the client has received
    ccStore,      \* Persistence: the request's row
    \* ---- the pipe between a translation worker and its consumer
    plProvider,   \* the provider client whose worker runs
    plUpstream,   \* the upstream body: lines still to come, and whether it goes on for ever
    plWorker,     \* the worker: "read", "write" (blocked in a pipe write) or "done"
    plBody,       \* the upstream body: "open" or "closed"
    plCtx,        \* the request's context: "live" or "cancelled"
    plClient,     \* the client connection: "connected" or "gone"
    plConsumer,   \* the handler: "reading" the pipe, or "returned" (read side closed)
    \* ---- config.Load
    cfEnv,        \* the environment: a value for each variable, "" when it is not set
    cfFile,       \* the YAML config file: missing, or the keys it gives with their values
    cfOut,        \* once loaded: the Config that Load returned
    \* ---- GET /api/requests
    pgStored,     \* the requests GetAllRequests returns, in storage order
    pgQuery,      \* the page and limit of the query, as strconv.Atoi returns them
    pgOut,        \* once answered: the status, total and requests of the response, or a panic
    \* ---- the request translators of the provider clients
    rtProvider,   \* the provider client that translates
    rtReq,        \* the AnthropicRequest: its system messages and conversation messages
    rtOut,        \* once translated: the body of the upstream request
    \* ---- an agent definition loaded, then asked for
    agPrompt,     \* the prompt P of the agent definition file
    agNotes,      \* what the request appends to P: nothing, or a Notes: section
    agOut,        \* once routed: what DetermineRoute returned
    \* ---- concurrent Messages requests over one requests table
    isReq,        \* each request's handler: its position and its RequestID
    isRows        \* the requests table: for each id, the row if there is one

routerVars == <<router, request, outcome, routeLog, calls>>
fpVars == <<fpT, fpS, fpOut>>
pmVars == <<pmModel, pmOut>>
stVars == <<stProvider, stUpstream, stPos, stPipe, stPc, stBodyClosed>>
hVars == <<hReq, hUp, hPc, hClient, hStore, hUpCalls, hResp, hStream>>
fwVars == <<fwReq, fwOut>>
ccVars == <<ccReq, ccPc, ccClient, ccStore>>
plVars == <<plProvider, plUpstream, plWorker, plBody, plCtx, plClient, plConsumer>>
cfVars == <<cfEnv, cfFile, cfOut>>
pgVars == <<pgStored, pgQuery, pgOut>>
rtVars == <<rtProvider, rtReq, rtOut>>
agVars == <<agPrompt, agNotes, agOut>>
isVars == <<isReq, isRows>>
vars == <<fpVars, pmVars, routerVars, stVars, hVars, fwVars, ccVars, plVars, cfVars, pgVars, rtVars, agVars, isVars>>


(***************************************************************************)
(* Bounds of the model.                                                    *)
(***************************************************************************)
MaxPieces == 2      \* pieces a generated prompt text is made of
MaxTailPieces == 1  \* pieces that follow the marker in the suffix S
MaxCalls == 2       \* DetermineRoute calls per behaviour
MaxModelPieces == 2 \* pieces a generated model name is made of
MaxLines == 3       \* lines of an upstream stream

(***************************************************************************)
(* Strings.                                                                *)
(***************************************************************************)
Min(S) == CHOOSE x \in S : \A y \in S : x <= y

RECURSIVE Concat(_)
Concat(ss) == IF ss = <<>> THEN <<>> ELSE Head(ss) \o Concat(Tail(ss))

\* strings.HasPrefix(s, prefix)
HasPrefix(s, prefix) ==
    /\ Len(prefix) <= Len(s)
    /\ SubSeq(s, 1, Len(prefix)) = prefix

\* strings.Index(s, substr): 0-based index of the first occurrence, or -1
Index(s, substr) ==
    LET at == {i \in 0..(Len(s) - Len(substr)) :
                  SubSeq(s, i + 1, i + Len(substr)) = substr}
    IN  IF at = {} THEN -1 ELSE Min(at)

\* strings.Contains(s, substr)
Contains(s, substr) == Index(s, substr) # -1

\* unicode.IsSpace on the characters the model uses
IsSpace(c) == c \in {" ", "\n", "\t", "\r"}

RECURSIVE TrimLeftSpace(_)
TrimLeftSpace(s) ==
    IF s # <<>> /\ IsSpace(Head(s)) THEN TrimLeftSpace(Tail(s)) ELSE s

RECURSIVE TrimRightSpace(_)
TrimRightSpace(s) ==
    IF s # <<>> /\ IsSpace(s[Len(s)])
    THEN TrimRightSpace(SubSeq(s, 1, Len(s) - 1))
    ELSE s

\* strings.TrimSpace(s)
TrimSpace(s) == TrimRightSpace(TrimLeftSpace(s))

\* strings.Split(s, sep) for a non-empty sep
RECURSIVE Split(_, _)
Split(s, sep) ==
    LET i == Index(s, sep)
    IN  IF i = -1
        THEN <<s>>
        ELSE <<SubSeq(s, 1, i)>> \o Split(SubSeq(s, i + Len(sep) + 1, Len(s)), sep)

(***************************************************************************)
(* String constants of the source.                                         *)
(***************************************************************************)
NotesMarker1 == <<"\n", "N", "o", "t", "e", "s", ":">>
NotesMarker2 == <<"\n", "\n", "N", "o", "t", "e", "s", ":">>
AgentFileSep == <<"\n", "-", "-", "-", "\n">>
ClaudeCodeMarker ==
    <<"Y", "o", "u", " ", "a", "r", "e", " ",
      "C", "l", "a", "u", "d", "e", " ", "C", "o", "d", "e">>

(***************************************************************************)
(* Fingerprint: extractStaticPrompt and hashString.                        *)
(***************************************************************************)
\* extractStaticPrompt with the two markers tried in the other order
extractStaticPrompt_doubleFirst(systemPrompt) ==
    LET i2 == Index(systemPrompt, NotesMarker2)
        notesIndex == IF i2 = -1 THEN Index(systemPrompt, NotesMarker1) ELSE i2
    IN  IF notesIndex # -1
        THEN TrimSpace(SubSeq(systemPrompt, 1, notesIndex))
        ELSE TrimSpace(systemPrompt)

extractStaticPrompt(systemPrompt) ==
    LET i1 == Index(systemPrompt, NotesMarker1)
        notesIndex == IF i1 = -1 THEN Index(systemPrompt, NotesMarker2) ELSE i1
    IN  IF notesIndex # -1
        THEN TrimSpace(SubSeq(systemPrompt, 1, notesIndex))
        ELSE TrimSpace(systemPrompt)

\* The first 16 hex characters of the SHA-256 digest of s.  The digest is
\* modelled as collision-free: a value that determines, and is determined
\* by, the hashed text.
hashString(s) == [sha256_16 |-> s]

(***************************************************************************)
(* The prefix table.                                                       *)
(***************************************************************************)
providerPatterns ==
    << [prefix |-> <<"g", "p", "t", "-">>, provider |-> "openai"],
       [prefix |-> <<"o", "1">>, provider |-> "openai"],
       [prefix |-> <<"o", "3">>, provider |-> "openai"],
       [prefix |-> <<"c", "l", "a", "u", "d", "e", "-">>, provider |-> "anthropic"] >>

RECURSIVE FirstMatch(_, _)
FirstMatch(patterns, model) ==
    IF patterns = <<>> THEN "anthropic"
    ELSE IF HasPrefix(model, Head(patterns).prefix) THEN Head(patterns).provider
    ELSE FirstMatch(Tail(patterns), model)

\* getProviderNameForModel matching the prefix anywhere in the name
getProviderNameForModel_contains(model) ==
    LET hits == {i \in 1..Len(providerPatterns) :
                    Contains(model, providerPatterns[i].prefix)}
    IN  IF hits = {} THEN "anthropic" ELSE providerPatterns[Min(hits)].provider

getProviderNameForModel(model) == FirstMatch(providerPatterns, model)

(***************************************************************************)
(* Model names, agent names and agent definition files.                    *)
(***************************************************************************)
M_gpt4o == <<"g", "p", "t", "-", "4", "o">>
M_claude3opus == <<"c", "l", "a", "u", "d", "e", "-", "3", "-", "o", "p", "u", "s">>
M_geminipro == <<"g", "e", "m", "i", "n", "i", "-", "p", "r", "o">>

AgentNames == {"code-reviewer", "planner"}
SearchRoots == <<"project", "home">>
\* os.ReadFile: a missing file (err != nil) or the content read
NoFile == [exists |-> FALSE, content |-> <<>>]
File(content) == [exists |-> TRUE, content |-> content]

\* "<metadata>\n---\n<prompt>" files; the prompt of FileA is "a" once trimmed,
\* that of FileAA is "aa" followed by a Notes: section
FileA == <<"m">> \o AgentFileSep \o <<" ", "a", "\n">>
FileAA == <<"m">> \o AgentFileSep \o <<"a", "a">> \o NotesMarker1 \o <<"x">>
FileNoSep == <<"m", "\n", "a">>

\* The file system the router reads at start-up: (root, agent) -> content
MkDisk(projCR, homeCR, projPL, homePL) ==
    [p \in {"project", "home"} \X AgentNames |->
        IF p = <<"project", "code-reviewer">> THEN projCR
        ELSE IF p = <<"home", "code-reviewer">> THEN homeCR
        ELSE IF p = <<"project", "planner">> THEN projPL
        ELSE homePL]

DiskChoices ==
    { MkDisk(File(FileA), NoFile, NoFile, NoFile),
      MkDisk(File(FileNoSep), File(FileAA), File(FileA), NoFile),
      MkDisk(NoFile, NoFile, NoFile, NoFile) }

\* cfg.Subagents.Mappings: agent name -> target model
MappingChoices ==
    { [a \in {"code-reviewer"} |-> M_gpt4o],
      [a \in {"code-reviewer", "planner"} |->
          IF a = "code-reviewer" THEN M_gpt4o ELSE M_geminipro],
      [a \in {"planner"} |-> M_claude3opus] }

\* the provider names that have a Provider Client instance
ProviderSets == { {"anthropic", "openai"}, {"anthropic"}, {"openai"} }

(***************************************************************************)
(* ModelRouter: NewModelRouter and loadCustomAgents.                       *)
(***************************************************************************)
\* the inner loop of loadCustomAgents: the first path that holds a file
\* with at least two "\n---\n" parts defines the agent
RECURSIVE LoadFromPaths(_, _, _, _, _)
LoadFromPaths(table, disk, roots, agentName, targetModel) ==
    IF roots = <<>> THEN table
    ELSE LET file == disk[<<Head(roots), agentName>>]
             parts == Split(file.content, AgentFileSep)
         IN  IF ~file.exists
             THEN LoadFromPaths(table, disk, Tail(roots), agentName, targetModel)
             ELSE IF Len(parts) >= 2
             THEN LET systemPrompt == TrimSpace(parts[2])
                      staticPrompt == extractStaticPrompt(systemPrompt)
                      hash == hashString(staticPrompt)
                      def == [Name |-> agentName,
                              TargetModel |-> targetModel,
                              TargetProvider |-> getProviderNameForModel(targetModel),
                              FullPrompt |-> staticPrompt]
                  IN  [h \in DOMAIN table \cup {hash} |->
                          IF h = hash THEN def ELSE table[h]]
             ELSE LoadFromPaths(table, disk, Tail(roots), agentName, targetModel)

\* loadCustomAgents over the mappings in the order Go's map iteration
\* happens to visit them
RECURSIVE loadCustomAgents(_, _, _, _)
loadCustomAgents(table, disk, mappings, order) ==
    IF order = <<>> THEN table
    ELSE loadCustomAgents(
             LoadFromPaths(table, disk, SearchRoots, Head(order), mappings[Head(order)]),
             disk, mappings, Tail(order))

EmptyTable == <<>>

\* every order in which the keys of a map can be iterated
Orders(S) ==
    {o \in [1..Cardinality(S) -> S] : \A i, j \in 1..Cardinality(S) : o[i] = o[j] => i = j}

NewModelRouter(enable, providers, mappings, disk, order) ==
    [ enable |-> enable,
      providers |-> providers,
      subagentMappings |-> mappings,
      customAgentPrompts |->
          IF enable THEN loadCustomAgents(EmptyTable, disk, mappings, order)
          ELSE EmptyTable ]

Routers ==
    UNION { { NewModelRouter(e, ps, m, d, o) : o \in Orders(DOMAIN m) } :
              e \in BOOLEAN, ps \in ProviderSets,
              m \in MappingChoices, d \in DiskChoices }

(***************************************************************************)
(* DetermineRoute.                                                         *)
(***************************************************************************)
NoDecision == [Provider |-> "nil", OriginalModel |-> <<>>, TargetModel |-> <<>>]
NoError == "nil"

\* a lookup that falls back to the anthropic instance for a missing name
ProviderInstance_fallback(r, name) ==
    IF name \in r.providers THEN name
    ELSE IF "anthropic" \in r.providers THEN "anthropic" ELSE "nil"

\* r.providers[name]: the instance registered under the name, or nil
ProviderInstance(r, name) == IF name \in r.providers THEN name ELSE "nil"

Return(decision, err) == [decision |-> decision, err |-> err]

\* DefaultRoute that forwards everything to the anthropic provider
DefaultRoute_alwaysAnthropic(r, req) ==
    IF "anthropic" \notin r.providers
    THEN Return(NoDecision, "no provider found for model")
    ELSE Return([Provider |-> "anthropic",
                 OriginalModel |-> req.Model,
                 TargetModel |-> req.Model], NoError)

\* lines 205-212 and 165-170: the request's own model through the prefix table
DefaultRoute(r, req) ==
    LET providerName == getProviderNameForModel(req.Model)
        provider == ProviderInstance(r, providerName)
    IN  IF provider = "nil"
        THEN Return(NoDecision, "no provider found for model")
        ELSE Return([Provider |-> provider,
                     OriginalModel |-> req.Model,
                     TargetModel |-> req.Model], NoError)

\* the pattern check without the test of the first block
IsSubagentHit_anyFirstBlock(r, req) ==
    /\ Len(req.System) = 2
    /\ hashString(extractStaticPrompt(req.System[2].Text)) \in DOMAIN r.customAgentPrompts

\* lines 173-203: the Claude Code pattern was seen and the fingerprint is known
IsSubagentHit(r, req) ==
    /\ Len(req.System) = 2
    /\ Contains(req.System[1].Text, ClaudeCodeMarker)
    /\ hashString(extractStaticPrompt(req.System[2].Text)) \in DOMAIN r.customAgentPrompts

\* DetermineRoute that takes the provider of a matched agent but leaves
\* the target model at the request's model
DetermineRoute_keepsModel(r, req) ==
    IF ~r.enable THEN DefaultRoute(r, req)
    ELSE IF IsSubagentHit(r, req)
    THEN LET definition ==
                 r.customAgentPrompts[hashString(extractStaticPrompt(req.System[2].Text))]
             provider == ProviderInstance(r, definition.TargetProvider)
         IN  IF provider = "nil"
             THEN Return(NoDecision, "provider not found for model")
             ELSE Return([Provider |-> provider,
                          OriginalModel |-> req.Model,
                          TargetModel |-> req.Model], NoError)
    ELSE DefaultRoute(r, req)

DetermineRoute(r, req) ==
    IF ~r.enable THEN DefaultRoute(r, req)
    ELSE IF IsSubagentHit(r, req)
    THEN LET definition ==
                 r.customAgentPrompts[hashString(extractStaticPrompt(req.System[2].Text))]
             provider == ProviderInstance(r, definition.TargetProvider)
         IN  IF provider = "nil"
             THEN Return(NoDecision, "provider not found for model")
             ELSE Return([Provider |-> provider,
                          OriginalModel |-> req.Model,
                          TargetModel |-> definition.TargetModel], NoError)
    ELSE DefaultRoute(r, req)

\* The request as a call of the older RouteRequest left it: on a hit the
\* model field was overwritten with the target model
RequestAfterRoute_overwrite(r, req) ==
    IF IsSubagentHit(r, req)
    THEN [req EXCEPT !.Model =
             r.customAgentPrompts[hashString(extractStaticPrompt(req.System[2].Text))].TargetModel]
    ELSE req

\* *req after DetermineRoute(req): the function assigns to no field of it
RequestAfterRoute(r, req) == req

\* *r after DetermineRoute(req): the function assigns to no field of it
RouterAfterRoute(r, req) == r

(***************************************************************************)
(* Server-sent events.  A body is a sequence of lines; a "data: " line     *)
(* carries a payload: a JSON value of one of the dialects, the literal     *)
(* [DONE], or text that is no JSON.                                        *)
(***************************************************************************)
EventLine(type) == [line |-> "event", type |-> type]
DataLine(payload) == [line |-> "data", payload |-> payload]
BlankLine == [line |-> "blank"]

\* strings.HasPrefix(line, "data: ")
IsDataLine(l) == l.line = "data"

DoneMarker == [json |-> "[DONE]"]
Malformed == [json |-> "malformed"]
\* {"choices":[{"delta":{"content":c},"finish_reason":f}]}
OpenAIChunk(content, finish) ==
    [json |-> "openai_chunk", content |-> content, finish_reason |-> finish]
\* {"candidates":[{"content":{"parts":[{"text":t}]}}]}
GeminiChunk(text) == [json |-> "gemini_chunk", text |-> text]
\* {"type":<type>,"delta":{"type":"text_delta","text":t}}
DeltaEvent(type, text) ==
    [json |-> "anthropic_event", type |-> type, delta_type |-> "text_delta", text |-> text]
\* {"type":"message_stop"}
MessageStop == [json |-> "anthropic_event", type |-> "message_stop"]
\* the text of an error the worker met, written after "data: "
ErrorText == [json |-> "read error text"]

\* json.Unmarshal(data, &map[string]interface{}) succeeds
IsJSONObject(payload) == payload.json \notin {"[DONE]", "malformed", "read error text"}

\* fmt.Fprintf(pw, "event: %s\ndata: %s\n\n", event["type"], eventData)
WriteEvent(event) == <<EventLine(event.type), DataLine(event), BlankLine>>

convertOpenRouterChunkToAnthropicEvent(chunk) ==
    LET text == IF chunk.json = "openai_chunk" THEN chunk.content ELSE ""
        finished == chunk.json = "openai_chunk" /\ chunk.finish_reason # ""
    IN  DeltaEvent(IF finished THEN "message_stop" ELSE "content_block_delta", text)

convertGeminiChunkToAnthropicEvent(chunk) ==
    DeltaEvent("content_block_delta",
               IF chunk.json = "gemini_chunk" THEN chunk.text ELSE "")

Step(out, stop) == [out |-> out, stop |-> stop]

\* the body of the scanner loop of OpenRouterProvider.handleStreamingResponse
OpenRouterLine(l) ==
    IF ~IsDataLine(l) THEN Step(<<>>, FALSE)
    ELSE IF l.payload = DoneMarker THEN Step(WriteEvent(MessageStop), TRUE)
    ELSE IF IsJSONObject(l.payload)
    THEN Step(WriteEvent(convertOpenRouterChunkToAnthropicEvent(l.payload)), FALSE)
    ELSE Step(<<>>, FALSE)

\* the body of the read loop of GeminiProvider.handleStreamingResponse
GeminiLine(l) ==
    IF ~IsDataLine(l) THEN Step(<<>>, FALSE)
    ELSE IF l.payload = DoneMarker THEN Step(WriteEvent(MessageStop), TRUE)
    ELSE IF IsJSONObject(l.payload)
    THEN Step(WriteEvent(convertGeminiChunkToAnthropicEvent(l.payload)), FALSE)
    ELSE Step(<<>>, FALSE)

\* transformOpenAIStreamToAnthropic: io.Copy of the upstream bytes
OpenAILine(l) == Step(<<l>>, FALSE)

\* the lines an upstream of each dialect can send
DialectLines(provider) ==
    IF provider = "gemini"
    THEN { DataLine(GeminiChunk("a")), DataLine(GeminiChunk("b")),
           DataLine(DoneMarker), DataLine(Malformed), BlankLine }
    ELSE { DataLine(OpenAIChunk("a", "")), DataLine(OpenAIChunk("b", "")),
           DataLine(OpenAIChunk("", "stop")),
           DataLine(DoneMarker), DataLine(Malformed), BlankLine }

SeqsUpTo(S, n) == UNION { [1..k -> S] : k \in 0..n }

TranslatingProviders == {"openai", "openrouter", "gemini"}

(***************************************************************************)
(* Response bodies.  A body that is no event stream is one raw line.       *)
(***************************************************************************)
RawLine(payload) == [line |-> "raw", payload |-> payload]

\* {"type":"error","message":"rate limited"}
ErrorObject == [json |-> "error_object", message |-> "rate limited"]
\* {"error": <message>}
ErrorEnvelope(message) == [json |-> "error_envelope", error |-> message]
PlainText(text) == [json |-> "malformed", text |-> text]

NoUsage == [shape |-> "absent", input |-> 0, output |-> 0]
\* {"id":..,"model":..,"choices":[{"message":{"content":text}}],"usage":{...}}
OpenAIResponse(text, usage) ==
    [json |-> "openai_response", id |-> "chatcmpl-1", model |-> "gpt-4o",
     hasText |-> TRUE, content |-> text, usage |-> usage]
\* {"id":..,"model":..,"choices":[],"usage":{...}}: no message content
OpenAIResponseNoText(usage) ==
    [json |-> "openai_response", id |-> "chatcmpl-1", model |-> "gpt-4o",
     hasText |-> FALSE, content |-> "", usage |-> usage]
\* {"candidates":[{"content":{"parts":[{"text":..},..]}}],"usageMetadata":{...}}
GeminiResponse(parts, usage) ==
    [json |-> "gemini_response", parts |-> parts, usage |-> usage]
\* the canonical response envelope
AnthropicMessage(id, content, model, usage) ==
    [json |-> "anthropic_message", id |-> id, type |-> "message", role |-> "assistant",
     content |-> content, model |-> model, usage |-> usage]

TextBlock(text) == [type |-> "text", text |-> text]

\* json.Unmarshal of a whole body into a map
BodyParses(body) ==
    /\ Len(body) = 1
    /\ body[1].line = "raw"
    /\ IsJSONObject(body[1].payload)

\* transformOpenAIResponseToAnthropic loses the message content
transformOpenAIResponseToAnthropic_dropsText(body) ==
    IF ~BodyParses(body) THEN body
    ELSE LET r == body[1].payload
             isResp == r.json = "openai_response"
         IN  <<RawLine(AnthropicMessage(
                   IF isResp THEN r.id ELSE "null",
                   <<TextBlock("")>>,
                   IF isResp THEN r.model ELSE "null",
                   IF isResp THEN r.usage ELSE NoUsage))>>

\* transformOpenAIResponseToAnthropic
transformOpenAIResponseToAnthropic(body) ==
    IF ~BodyParses(body) THEN body
    ELSE LET r == body[1].payload
             isResp == r.json = "openai_response"
         IN  <<RawLine(AnthropicMessage(
                   IF isResp THEN r.id ELSE "null",
                   <<TextBlock(IF isResp /\ r.hasText THEN r.content ELSE "")>>,
                   IF isResp THEN r.model ELSE "null",
                   IF isResp THEN r.usage ELSE NoUsage))>>

\* usage counters start at zero and take the provider's counts when present
CanonicalUsage(usage) ==
    [shape |-> "anthropic",
     input |-> IF usage.shape = "absent" THEN 0 ELSE usage.input,
     output |-> IF usage.shape = "absent" THEN 0 ELSE usage.output]

convertOpenRouterToAnthropicResponse(r) ==
    LET isResp == r.json = "openai_response"
    IN  AnthropicMessage(
            IF isResp THEN r.id ELSE "null",
            IF isResp /\ r.hasText THEN <<TextBlock(r.content)>> ELSE <<>>,
            "claude-3-5-sonnet-20241022",
            CanonicalUsage(IF isResp THEN r.usage ELSE NoUsage))

convertGeminiToAnthropicResponse(r) ==
    LET isResp == r.json = "gemini_response"
    IN  AnthropicMessage(
            "msg_<unix time>",
            IF isResp THEN [i \in 1..Len(r.parts) |-> TextBlock(r.parts[i])] ELSE <<>>,
            "claude-3-5-sonnet-20241022",
            CanonicalUsage(IF isResp THEN r.usage ELSE NoUsage))

\* what ForwardRequest returns: an error, or a response
ForwardError(msg) == [err |-> msg, status |-> 0, body |-> <<>>]
Response(status, body) == [err |-> "nil", status |-> status, body |-> body]
NoResponse == Response(0, <<>>)

\* OpenRouterProvider.handleRegularResponse
OpenRouter_handleRegularResponse(status, body) ==
    IF ~BodyParses(body)
    THEN ForwardError("failed to parse OpenRouter response")
    ELSE Response(status, <<RawLine(convertOpenRouterToAnthropicResponse(body[1].payload))>>)

\* GeminiProvider.handleRegularResponse
Gemini_handleRegularResponse(status, body) ==
    IF ~BodyParses(body)
    THEN ForwardError("failed to parse Gemini response")
    ELSE Response(status, <<RawLine(convertGeminiToAnthropicResponse(body[1].payload))>>)

\* the loop body of a provider client's translation worker
TranslateLine(provider, l) ==
    IF provider = "openrouter" THEN OpenRouterLine(l)
    ELSE IF provider = "gemini" THEN GeminiLine(l)
    ELSE OpenAILine(l)

\* a translation worker run to the end of the upstream body
RECURSIVE RunWorker(_, _)
RunWorker(provider, lines) ==
    IF lines = <<>> THEN <<>>
    ELSE LET t == TranslateLine(provider, Head(lines))
         IN  IF t.stop THEN t.out ELSE t.out \o RunWorker(provider, Tail(lines))

\* the lines a worker reads before it would stop by itself
RECURSIVE LinesRead(_, _)
LinesRead(provider, lines) ==
    IF lines = <<>> THEN 0
    ELSE IF TranslateLine(provider, Head(lines)).stop THEN 1
    ELSE 1 + LinesRead(provider, Tail(lines))

\* GeminiProvider.handleStreamingResponse: the worker races with the deferred
\* close of the body it reads; it completes, or fails after k lines
GeminiStreamBodies(lines) ==
    {RunWorker("gemini", lines)}
    \cup { RunWorker("gemini", SubSeq(lines, 1, k))
               \o <<EventLine("error"), DataLine(ErrorText), BlankLine>> :
           k \in 0..(LinesRead("gemini", lines) - 1) }

\* the responses a provider client's ForwardRequest can return for an
\* upstream answer (status, body)
ProviderResponses(provider, stream, status, body) ==
    IF provider = "anthropic" THEN {Response(status, body)}
    ELSE IF provider = "openai"
    THEN IF stream THEN {Response(status, RunWorker("openai", body))}
         ELSE {Response(status, transformOpenAIResponseToAnthropic(body))}
    ELSE IF provider = "openrouter"
    THEN IF stream THEN {Response(status, RunWorker("openrouter", body))}
         ELSE {OpenRouter_handleRegularResponse(status, body)}
    ELSE IF stream THEN {Response(status, b) : b \in GeminiStreamBodies(body)}
         ELSE {Gemini_handleRegularResponse(status, body)}

(***************************************************************************)
(* The handler of POST /v1/messages: its request, its responses, the row   *)
(* it keeps in the requests table.                                         *)
(***************************************************************************)
Providers == {"anthropic", "openai", "openrouter", "gemini"}

\* {"type":"content_block_start","index":i,"content_block":{"type":"tool_use",..}}
ToolUseStart(index, id) ==
    [json |-> "anthropic_event", type |-> "content_block_start", index |-> index,
     block_type |-> "tool_use", id |-> id]
\* {"type":"content_block_delta","index":i,"delta":{"type":"input_json_delta",..}}
InputJSONDelta(index, input) ==
    [json |-> "anthropic_event", type |-> "content_block_delta", index |-> index,
     delta_type |-> "input_json_delta", input |-> input]

\* the lines an Anthropic upstream can stream
AnthropicLines ==
    { DataLine(DeltaEvent("content_block_delta", "a")),
      DataLine(DeltaEvent("content_block_delta", "b")),
      DataLine(ToolUseStart(0, "toolu_0")),
      DataLine(ToolUseStart(1, "toolu_1")),
      DataLine(InputJSONDelta(1, "{}")),
      DataLine(MessageStop), DataLine(Malformed), EventLine("content_block_delta") }

StreamLines(provider) ==
    IF provider = "anthropic" THEN AnthropicLines ELSE DialectLines(provider)

\* a successful non-streaming body of each dialect
SuccessBodies(provider) ==
    IF provider = "anthropic"
    THEN { <<RawLine(AnthropicMessage("msg_1", <<TextBlock("a")>>, "claude-3-opus",
                                       [shape |-> "anthropic", input |-> 1, output |-> 1]))>> }
    ELSE IF provider = "gemini"
    THEN { <<RawLine(GeminiResponse(parts, usage))>> :
             parts \in {<<>>, <<"a">>, <<"a", "b">>},
             usage \in {NoUsage, [shape |-> "gemini", input |-> 1, output |-> 1]} }
    ELSE { <<RawLine(r)>> :
             r \in { OpenAIResponse(text, usage) :
                         text \in {"", "a"},
                         usage \in {NoUsage, [shape |-> "openai", input |-> 1, output |-> 1]} }
                   \cup { OpenAIResponseNoText(usage) :
                         usage \in {NoUsage, [shape |-> "openai", input |-> 1, output |-> 1]} } }

ErrorStatuses == {429, 500}
ErrorBodies == { <<RawLine(ErrorObject)>>, <<RawLine(PlainText("upstream unavailable"))>> }

\* what the upstream does when it is called
TransportError == [transport |-> "error", status |-> 0, body |-> <<>>]
Answer(status, body) == [transport |-> "ok", status |-> status, body |-> body]
DefaultAnswer == Answer(200, <<>>)

UpstreamAnswers(provider, stream) ==
    {TransportError}
    \cup { Answer(st, b) : st \in ErrorStatuses, b \in ErrorBodies }
    \cup { Answer(200, b) :
             b \in IF stream THEN SeqsUpTo(StreamLines(provider), MaxLines)
                   ELSE SuccessBodies(provider) }

\* the handler's view of the client connection: status 0 until a header is sent
NothingWritten == [status |-> 0, body |-> <<>>]
Written(status, body) == [status |-> status, body |-> body]

\* writeErrorResponse: json.NewEncoder(w).Encode(&model.ErrorResponse{Error: message})
writeErrorResponse(message, status) == Written(status, <<RawLine(ErrorEnvelope(message))>>)
\* http.Error
httpError(message, status) == Written(status, <<RawLine(PlainText(message))>>)

\* the row of the request: saved, the calls made on it, the response attached
EmptyStore == [saved |-> FALSE, saveCalls |-> 0, updateCalls |-> 0, response |-> <<>>]

\* model.ResponseLog
ResponseLog(status, bodyText, isStreaming, chunks, body) ==
    [StatusCode |-> status, BodyText |-> bodyText, IsStreaming |-> isStreaming,
     StreamingChunks |-> chunks, Body |-> body]

\* SaveRequest: INSERT INTO requests, which can fail
SaveRequest(store, ok) ==
    [store EXCEPT !.saved = ok, !.saveCalls = @ + 1]

\* UpdateRequestWithResponse: UPDATE requests SET response = ? WHERE id = ?
UpdateRequestWithResponse(store, responseLog, ok) ==
    [store EXCEPT !.updateCalls = @ + 1,
                  !.response = IF ok /\ store.saved THEN <<responseLog>> ELSE @]

\* the accumulators of the streaming loop
\* ended: "no" while the loop runs, "eof" or "error" by what made
\* scanner.Scan() return false; gone: the client has disconnected
NoStream ==
    [pos |-> 0, chunks |-> <<>>, text |-> <<>>, toolCalls |-> <<>>,
     ended |-> "no", gone |-> FALSE]

(***************************************************************************)
(* The headers of the upstream request.  A header is its lower-case name;  *)
(* an upstream header also records where its value comes from.             *)
(***************************************************************************)
\* excludedHeaders of anthropicService.ForwardRequest
excludedHeaders ==
    {"host", "connection", "proxy-connection", "proxy-authorization", "content-length",
     "transfer-encoding", "te", "trailer", "upgrade"}

\* the header names an inbound request is built from
HeaderNames ==
    {"host", "connection", "proxy-authorization", "content-length", "transfer-encoding",
     "te", "upgrade", "x-trace-id", "authorization", "x-api-key", "content-type",
     "anthropic-version"}

Inbound(name) == <<name, "inbound">>      \* the inbound header, copied
Mandated(name) == <<name, "provider">>    \* a value the provider client sets
Computed(name) == <<name, "transport">>   \* a value net/http computes for the request

NamesOf(hs) == { h[1] : h \in hs }

\* http.Header.Del, http.Header.Set
Del(hs, name) == { h \in hs : h[1] # name }
Set(hs, h) == Del(hs, h[1]) \cup {h}

\* anthropicService.ForwardRequest: the headers of req before s.client.Do(req);
\* apiKey is the inbound x-api-key value, set again when it is not empty
AnthropicHeaders(inbound) ==
    LET forwarded == { Inbound(n) : n \in inbound \ excludedHeaders }
        withType == Set(forwarded, Mandated("content-type"))
        withVersion == Set(withType, Mandated("anthropic-version"))
    IN  IF "x-api-key" \in inbound THEN Set(withVersion, Inbound("x-api-key"))
        ELSE withVersion

\* originalReq.Clone(ctx) and the two Header.Del of the translating clients
ClonedHeaders(inbound) ==
    Del(Del({ Inbound(n) : n \in inbound }, "anthropic-version"), "x-api-key")

\* OpenAIProvider.ForwardRequest: the headers of proxyReq before p.client.Do
OpenAIHeaders(inbound, keyConfigured) ==
    LET withAuth == IF keyConfigured
                    THEN Set(ClonedHeaders(inbound), Mandated("authorization"))
                    ELSE ClonedHeaders(inbound)
    IN  Set(withAuth, Mandated("content-type"))

\* OpenRouterProvider.ForwardRequest
OpenRouterHeaders(inbound) ==
    Set(Set(Set(Set(ClonedHeaders(inbound), Mandated("authorization")),
                Mandated("content-type")),
            Mandated("http-referer")),
        Mandated("x-title"))

\* GeminiProvider.ForwardRequest: the key travels in the query string
GeminiHeaders(inbound) == Set(ClonedHeaders(inbound), Mandated("content-type"))

ProviderHeaders(provider, inbound, keyConfigured) ==
    IF provider = "anthropic" THEN AnthropicHeaders(inbound)
    ELSE IF provider = "openai" THEN OpenAIHeaders(inbound, keyConfigured)
    ELSE IF provider = "openrouter" THEN OpenRouterHeaders(inbound)
    ELSE GeminiHeaders(inbound)

\* client.Do: net/http writes Host and Content-Length from the request's own
\* fields and never from its header map, nor Transfer-Encoding and Trailer;
\* over HTTP/2 it also leaves out the connection-specific headers ("te" is
\* kept there when it says "trailers", which is the value modelled)
TransportOwned == {"host", "content-length", "transfer-encoding", "trailer"}
ConnectionSpecific == {"connection", "proxy-connection", "upgrade", "keep-alive"}
Protocols == {"HTTP/1.1", "HTTP/2"}

OnTheWire(hs, proto) ==
    { h \in hs : /\ h[1] \notin TransportOwned
                 /\ proto = "HTTP/2" => h[1] \notin ConnectionSpecific }
    \cup {Computed("host"), Computed("content-length")}

NotSent == [sent |-> FALSE, refused |-> FALSE, headers |-> {}]
Refused == [sent |-> FALSE, refused |-> TRUE, headers |-> {}]
Sent(hs) == [sent |-> TRUE, refused |-> FALSE, headers |-> hs]

(***************************************************************************)
(* Inputs.                                                                 *)
(***************************************************************************)
\* every concatenation of at most n pieces
TextsOf(pieces, n) ==
    UNION { {Concat(f) : f \in [1..k -> pieces]} : k \in 0..n }

PromptPieces ==
    { <<"a">>, <<" ">>, <<"\n">>, NotesMarker1, <<"N", "o", "t", "e", "s", ":">> }

PromptTexts == TextsOf(PromptPieces, MaxPieces)

NotesSuffixes ==
    { m \o tail : m \in {NotesMarker1, NotesMarker2},
                  tail \in TextsOf(PromptPieces, MaxTailPieces) }

ModelPieces ==
    { <<"g", "p", "t", "-">>, <<"g", "p", "t">>, <<"o", "1">>, <<"o", "3">>,
      <<"c", "l", "a", "u", "d", "e", "-">>, <<"4", "o">>,
      <<"3", "-", "o", "p", "u", "s">> }

ModelNames == TextsOf(ModelPieces, MaxModelPieces)

RequestModels == {M_claude3opus, M_gpt4o, M_geminipro}

\* first system blocks: the Claude Code preamble, and a text that has no marker
Preamble == ClaudeCodeMarker \o <<",">>
Helpful == <<"Y", "o", "u", " ", "a", "r", "e", " ", "a">>

Block(text) == [Text |-> text]

Systems ==
    {<<>>}
    \cup { <<Block(b1)>> : b1 \in {Preamble, Helpful} }
    \cup { <<Block(b1), Block(b2)>> : b1 \in {Preamble, Helpful}, b2 \in PromptTexts }
    \cup { <<Block(b1), Block(<<"a">>), Block(<<"a">>)>> : b1 \in {Preamble, Helpful} }

Requests == [Model : RequestModels, System : Systems]

(***************************************************************************)
(* Initial values of the parts a specification leaves alone.               *)
(***************************************************************************)
FpIdle ==
    /\ fpT = <<>>
    /\ fpS = <<>>
    /\ fpOut = [done |-> FALSE, t |-> hashString(<<>>), ts |-> hashString(<<>>)]

PmIdle ==
    /\ pmModel = <<>>
    /\ pmOut = [done |-> FALSE, provider |-> "nil"]

NotCalled == [called |-> FALSE, decision |-> NoDecision, err |-> NoError]

RouterIdle ==
    /\ router = NewModelRouter(FALSE, {}, <<>>, MkDisk(NoFile, NoFile, NoFile, NoFile), <<>>)
    /\ request = [Model |-> <<>>, System |-> <<>>]
    /\ outcome = NotCalled
    /\ routeLog = <<>>
    /\ calls = 0

StIdle ==
    /\ stProvider = "anthropic"
    /\ stUpstream = [lines |-> <<>>, finalNewline |-> TRUE]
    /\ stPos = 0
    /\ stPipe = <<>>
    /\ stPc = "closed"
    /\ stBodyClosed = FALSE

HIdle ==
    /\ hReq = [body |-> "nil", apiKey |-> FALSE, auth |-> FALSE,
               stream |-> FALSE, provider |-> "anthropic"]
    /\ hUp = DefaultAnswer
    /\ hPc = "done"
    /\ hClient = NothingWritten
    /\ hStore = EmptyStore
    /\ hUpCalls = 0
    /\ hResp = NoResponse
    /\ hStream = NoStream

FwIdle ==
    /\ fwReq = [provider |-> "anthropic", headers |-> {}, keyConfigured |-> FALSE,
                proto |-> "HTTP/1.1"]
    /\ fwOut = NotSent

CcIdle ==
    /\ ccReq = [body |-> "nil", model |-> <<>>]
    /\ ccPc = "done"
    /\ ccClient = NothingWritten
    /\ ccStore = EmptyStore

PlIdle ==
    /\ plProvider = "openrouter"
    /\ plUpstream = [left |-> 0, endless |-> FALSE]
    /\ plWorker = "done"
    /\ plBody = "closed"
    /\ plCtx = "live"
    /\ plClient = "connected"
    /\ plConsumer = "returned"

\* the settings the model follows (read from PORT, ANTHROPIC_FORWARD_URL and
\* OPENAI_API_KEY) and the built-in default of each
Settings == {"port", "anthropic_base_url", "openai_api_key"}
BuiltIn ==
    [port |-> "3001", anthropic_base_url |-> "https://api.anthropic.com",
     openai_api_key |-> ""]

\* a config file that cannot be read or parsed
MissingFile == [found |-> FALSE, keys |-> {}, value |-> BuiltIn]
\* a config file that gives the settings in keys
ConfigFile(keys, value) == [found |-> TRUE, keys |-> keys, value |-> value]

NotLoaded == [loaded |-> FALSE]

CfIdle ==
    /\ cfEnv = [k \in Settings |-> ""]
    /\ cfFile = MissingFile
    /\ cfOut = NotLoaded

NotAnswered == [answered |-> FALSE]

PgIdle ==
    /\ pgStored = <<>>
    /\ pgQuery = [page |-> 1, limit |-> 10]
    /\ pgOut = NotAnswered

NotTranslated == [done |-> FALSE]

RtIdle ==
    /\ rtProvider = "openai"
    /\ rtReq = [System |-> <<>>, Messages |-> <<>>]
    /\ rtOut = NotTranslated

AgIdle ==
    /\ agPrompt = <<>>
    /\ agNotes = <<>>
    /\ agOut = NotCalled

IsIdle ==
    /\ isReq = <<>>
    /\ isRows = <<>>


(***************************************************************************)
(* SpecFingerprint: the fingerprint of T and of T + S.                     *)
(***************************************************************************)
InitFingerprint ==
    /\ fpT \in PromptTexts
    /\ fpS \in NotesSuffixes
    /\ fpOut = [done |-> FALSE, t |-> hashString(<<>>), ts |-> hashString(<<>>)]
    /\ PmIdle /\ RouterIdle /\ StIdle /\ HIdle /\ FwIdle /\ CcIdle /\ PlIdle /\ CfIdle /\ PgIdle /\ RtIdle /\ AgIdle /\ IsIdle

Fingerprint ==
    /\ ~fpOut.done
    /\ fpOut' = [done |-> TRUE,
                 t |-> hashString(extractStaticPrompt(fpT)),
                 ts |-> hashString(extractStaticPrompt(fpT \o fpS))]
    /\ UNCHANGED <<fpT, fpS, pmVars, routerVars, stVars, hVars, fwVars, ccVars, plVars, cfVars, pgVars, rtVars, agVars, isVars>>

SpecFingerprint == InitFingerprint /\ [][Fingerprint]_vars

(***************************************************************************)
(* SpecProvider: the prefix table applied to a model name.                 *)
(***************************************************************************)
InitProvider ==
    /\ pmModel \in ModelNames
    /\ pmOut = [done |-> FALSE, provider |-> "nil"]
    /\ FpIdle /\ RouterIdle /\ StIdle /\ HIdle /\ FwIdle /\ CcIdle /\ PlIdle /\ CfIdle /\ PgIdle /\ RtIdle /\ AgIdle /\ IsIdle

ResolveProvider ==
    /\ ~pmOut.done
    /\ pmOut' = [done |-> TRUE, provider |-> getProviderNameForModel(pmModel)]
    /\ UNCHANGED <<pmModel, fpVars, routerVars, stVars, hVars, fwVars, ccVars, plVars, cfVars, pgVars, rtVars, agVars, isVars>>

SpecProvider == InitProvider /\ [][ResolveProvider]_vars

(***************************************************************************)
(* SpecRoute: a constructed router and calls of DetermineRoute.            *)
(***************************************************************************)
InitRoute ==
    /\ router \in Routers
    /\ request \in Requests
    /\ outcome = NotCalled
    /\ routeLog = <<>>
    /\ calls = 0
    /\ FpIdle /\ PmIdle /\ StIdle /\ HIdle /\ FwIdle /\ CcIdle /\ PlIdle /\ CfIdle /\ PgIdle /\ RtIdle /\ AgIdle /\ IsIdle

RouteCall ==
    /\ calls < MaxCalls
    /\ LET out == DetermineRoute(router, request)
       IN  /\ outcome' = [called |-> TRUE, decision |-> out.decision, err |-> out.err]
           /\ request' = RequestAfterRoute(router, request)
           /\ router' = RouterAfterRoute(router, request)
           /\ routeLog' = Append(routeLog,
                  [req |-> request, router |-> router, out |-> out,
                   reqAfter |-> request', routerAfter |-> router'])
    /\ calls' = calls + 1
    /\ UNCHANGED <<fpVars, pmVars, stVars, hVars, fwVars, ccVars, plVars, cfVars, pgVars, rtVars, agVars, isVars>>

SpecRoute == InitRoute /\ [][RouteCall]_vars

(***************************************************************************)
(* Claims about the fingerprint and the prefix table.                      *)
(***************************************************************************)
HasNotesMarker(text) == Contains(text, NotesMarker1) \/ Contains(text, NotesMarker2)

\* C1: Fingerprint stability.  For every text T and every suffix S that
\* begins with "\nNotes:" or "\n\nNotes:", the fingerprint of T + S is the
\* fingerprint of T; and the fingerprint of a text without a marker is the
\* hash of the whitespace-trimmed text.
C1_FingerprintStability ==
    fpOut.done =>
        /\ fpOut.ts = fpOut.t
        /\ (~HasNotesMarker(fpT) => fpOut.t = hashString(TrimSpace(fpT)))

\* a text with surrounding whitespace and no marker, extended by "\n\nNotes:..."
C1_Witness ==
    /\ fpOut.done
    /\ ~HasNotesMarker(fpT)
    /\ TrimSpace(fpT) # fpT
    /\ TrimSpace(fpT) # <<>>
    /\ HasPrefix(fpS, NotesMarker2)
    /\ fpOut.ts = hashString(TrimSpace(fpT))

\* the rules whose prefix is a prefix of the model name
MatchingRules(model) ==
    {i \in 1..Len(providerPatterns) : HasPrefix(model, providerPatterns[i].prefix)}

\* C2: Provider prefix resolution.  getProviderNameForModel returns the
\* provider of the first rule, in declared order, whose prefix is a prefix
\* of the model name ("gpt-4o" -> openai, "claude-3-opus" -> anthropic), and
\* the fallback anthropic when no rule matches.
C2_PrefixResolution ==
    pmOut.done =>
        /\ pmOut.provider =
               IF MatchingRules(pmModel) = {} THEN "anthropic"
               ELSE providerPatterns[Min(MatchingRules(pmModel))].provider
        /\ (pmModel = M_gpt4o => pmOut.provider = "openai")
        /\ (pmModel = M_claude3opus => pmOut.provider = "anthropic")

\* "gpt-4o" was resolved to openai
C2_Witness ==
    /\ pmOut.done
    /\ pmModel = M_gpt4o
    /\ pmOut.provider = "openai"

(***************************************************************************)
(* Claims about DetermineRoute.                                            *)
(***************************************************************************)
SecondBlockFingerprint == hashString(extractStaticPrompt(request.System[2].Text))

\* the request shows the Claude Code pattern
ClaudeCodePattern ==
    /\ Len(request.System) = 2
    /\ Contains(request.System[1].Text, ClaudeCodeMarker)

\* ... and its second block's fingerprint is a key of the agent table
AgentMatched ==
    /\ ClaudeCodePattern
    /\ SecondBlockFingerprint \in DOMAIN router.customAgentPrompts

MatchedDefinition == router.customAgentPrompts[SecondBlockFingerprint]

\* C3: Subagent match.  With subagent routing enabled, two system blocks,
\* the first containing "You are Claude Code", and the second block's
\* fingerprint a key of the agent table, the decision DetermineRoute returns
\* has the matched definition's target model and provider and the request's
\* own model as original model; it returns one whenever that provider has an
\* instance.
C3_SubagentMatch ==
    (outcome.called /\ router.enable /\ AgentMatched) =>
        /\ (MatchedDefinition.TargetProvider \in router.providers
               => outcome.err = NoError)
        /\ (outcome.err = NoError =>
               outcome.decision =
                   [Provider |-> MatchedDefinition.TargetProvider,
                    OriginalModel |-> request.Model,
                    TargetModel |-> MatchedDefinition.TargetModel])

\* a claude-3-opus request was re-targeted to the agent's gpt-4o on openai
C3_Witness ==
    /\ outcome.called /\ router.enable /\ AgentMatched
    /\ request.Model = M_claude3opus
    /\ outcome.err = NoError
    /\ outcome.decision.TargetModel = M_gpt4o
    /\ outcome.decision.Provider = "openai"
    /\ outcome.decision.OriginalModel = M_claude3opus

\* C4: Default routing.  With subagent routing disabled the system blocks
\* are ignored: the target model is the request's model field and the
\* provider is the one the prefix table gives for that model, also for a
\* request that shows the Claude Code pattern of a mapped agent.
C4_DefaultRouting ==
    (outcome.called /\ ~router.enable) =>
        /\ (getProviderNameForModel(request.Model) \in router.providers
               => outcome.err = NoError)
        /\ (outcome.err = NoError =>
               outcome.decision =
                   [Provider |-> getProviderNameForModel(request.Model),
                    OriginalModel |-> request.Model,
                    TargetModel |-> request.Model])

\* the tables the router would have loaded had routing been enabled
TablesIfEnabled ==
    { NewModelRouter(TRUE, router.providers, router.subagentMappings, d, o).customAgentPrompts :
          d \in DiskChoices, o \in Orders(DOMAIN router.subagentMappings) }

\* routing is disabled and the request is one an enabled router would
\* re-target: its second block is the prompt of a mapped agent
C4_Witness ==
    /\ outcome.called /\ ~router.enable
    /\ ClaudeCodePattern
    /\ \E table \in TablesIfEnabled :
           /\ SecondBlockFingerprint \in DOMAIN table
           /\ table[SecondBlockFingerprint].TargetModel = M_gpt4o
    /\ request.Model = M_claude3opus
    /\ outcome.err = NoError
    /\ outcome.decision.TargetModel = M_claude3opus
    /\ outcome.decision.Provider = "anthropic"

\* C5: Routing miss.  With subagent routing enabled, a request without
\* exactly two system blocks, or whose first block lacks the marker, or
\* whose second block's fingerprint is not in the table, gets exactly the
\* result it gets with routing disabled: target model unchanged, provider
\* from the prefix table.
C5_RoutingMiss ==
    (outcome.called /\ router.enable /\ ~AgentMatched) =>
        /\ [decision |-> outcome.decision, err |-> outcome.err]
               = DetermineRoute([router EXCEPT !.enable = FALSE], request)
        /\ (outcome.err = NoError =>
               /\ outcome.decision.TargetModel = request.Model
               /\ outcome.decision.Provider = getProviderNameForModel(request.Model))

\* a miss by the first block alone: the second block is a loaded agent's prompt
C5_Witness ==
    /\ outcome.called /\ router.enable
    /\ Len(request.System) = 2
    /\ ~Contains(request.System[1].Text, ClaudeCodeMarker)
    /\ SecondBlockFingerprint \in DOMAIN router.customAgentPrompts
    /\ request.Model = M_claude3opus
    /\ outcome.err = NoError
    /\ outcome.decision.TargetModel = M_claude3opus

\* the provider name DetermineRoute resolves for the request
ResolvedProvider ==
    IF router.enable /\ AgentMatched
    THEN MatchedDefinition.TargetProvider
    ELSE getProviderNameForModel(request.Model)

\* C6: Routing configuration error.  Whenever the resolved provider (of the
\* matched agent, or of the prefix table) has no configured instance,
\* DetermineRoute returns an error and no decision; no other provider is
\* substituted.
C6_ConfigurationError ==
    (outcome.called /\ ResolvedProvider \notin router.providers) =>
        /\ outcome.err # NoError
        /\ outcome.decision = NoDecision

\* a matched agent maps to openai, which has no instance, while anthropic has
C6_Witness ==
    /\ outcome.called /\ router.enable /\ AgentMatched
    /\ MatchedDefinition.TargetProvider = "openai"
    /\ router.providers = {"anthropic"}
    /\ outcome.err # NoError

InitStream ==
    /\ stProvider \in TranslatingProviders
    /\ stUpstream \in
           { [lines |-> ls, finalNewline |-> nl] :
                 ls \in SeqsUpTo(DialectLines(stProvider), MaxLines),
                 nl \in IF stProvider = "gemini" THEN BOOLEAN ELSE {TRUE} }
    /\ stPos = 0
    /\ stPipe = <<>>
    /\ stPc = "run"
    /\ stBodyClosed = FALSE
    /\ FpIdle /\ PmIdle /\ RouterIdle /\ HIdle /\ FwIdle /\ CcIdle /\ PlIdle /\ CfIdle /\ PgIdle /\ RtIdle /\ AgIdle /\ IsIdle

StreamFrame == UNCHANGED <<stProvider, stUpstream, fpVars, pmVars, routerVars, hVars, fwVars, ccVars, plVars, cfVars, pgVars, rtVars, agVars, isVars>>

\* one turn of the loop of a bufio.Scanner worker; defer pw.Close() at its end
ScannerTurn ==
    IF stPos = Len(stUpstream.lines)
    THEN /\ stPc' = "closed"
         /\ UNCHANGED <<stPos, stPipe>>
    ELSE LET t == TranslateLine(stProvider, stUpstream.lines[stPos + 1])
         IN  /\ stPipe' = stPipe \o t.out
             /\ stPos' = stPos + 1
             /\ stPc' = IF t.stop THEN "closed" ELSE "run"

OpenRouterWorker ==
    /\ stProvider = "openrouter" /\ stPc = "run"
    /\ ScannerTurn
    /\ UNCHANGED stBodyClosed
    /\ StreamFrame

OpenAIWorker ==
    /\ stProvider = "openai" /\ stPc = "run"
    /\ ScannerTurn
    /\ UNCHANGED stBodyClosed
    /\ StreamFrame

\* GeminiProvider.handleStreamingResponse returns right after it started the
\* worker, and its deferred geminiResp.Body.Close() runs then
GeminiDeferredClose ==
    /\ stProvider = "gemini" /\ stPc = "run" /\ ~stBodyClosed
    /\ stBodyClosed' = TRUE
    /\ UNCHANGED <<stPos, stPipe, stPc>>
    /\ StreamFrame

\* reader.ReadBytes('\n') fails on the closed body: the worker writes an
\* error event and stops
GeminiReadError ==
    /\ stProvider = "gemini" /\ stPc = "run" /\ stBodyClosed
    /\ stPipe' = stPipe \o <<EventLine("error"), DataLine(ErrorText), BlankLine>>
    /\ stPc' = "closed"
    /\ UNCHANGED <<stPos, stBodyClosed>>
    /\ StreamFrame

\* one turn of the ReadBytes loop: what the bufio.Reader still holds is read
\* even after the close; a last line without "\n" comes with io.EOF and is
\* dropped by the break
GeminiWorker ==
    /\ stProvider = "gemini" /\ stPc = "run"
    /\ IF stPos + 1 = Len(stUpstream.lines) /\ ~stUpstream.finalNewline
       THEN /\ stPc' = "closed"
            /\ stPos' = stPos + 1
            /\ UNCHANGED stPipe
       ELSE ScannerTurn
    /\ UNCHANGED stBodyClosed
    /\ StreamFrame

NextStream ==
    \/ OpenRouterWorker
    \/ OpenAIWorker
    \/ GeminiDeferredClose
    \/ GeminiReadError
    \/ GeminiWorker

SpecStream == InitStream /\ [][NextStream]_vars

(***************************************************************************)
(* Claims about the stream translators.                                    *)
(***************************************************************************)
\* a text-delta line of the provider's dialect, and its text
IsTextDeltaLine(l) ==
    /\ IsDataLine(l)
    /\ \/ l.payload.json = "gemini_chunk"
       \/ l.payload.json = "openai_chunk" /\ l.payload.finish_reason = ""

TextOfDeltaLine(l) ==
    IF l.payload.json = "gemini_chunk" THEN l.payload.text ELSE l.payload.content

\* the upstream body is N text-delta lines followed by one termination line
DeltasThenDone ==
    LET ls == stUpstream.lines
    IN  /\ Len(ls) >= 1
        /\ ls[Len(ls)] = DataLine(DoneMarker)
        /\ stUpstream.finalNewline
        /\ \A i \in 1..(Len(ls) - 1) : IsTextDeltaLine(ls[i])

\* the payloads of the data lines of a body, in order
RECURSIVE DataPayloads(_)
DataPayloads(ls) ==
    IF ls = <<>> THEN <<>>
    ELSE IF IsDataLine(Head(ls)) THEN <<Head(ls).payload>> \o DataPayloads(Tail(ls))
    ELSE DataPayloads(Tail(ls))

ExpectedEvents ==
    [i \in 1..Len(stUpstream.lines) |->
        IF i < Len(stUpstream.lines)
        THEN DeltaEvent("content_block_delta", TextOfDeltaLine(stUpstream.lines[i]))
        ELSE MessageStop]

\* C8: Streaming order preservation.  For every provider client, an
\* upstream stream of N text-delta lines followed by one termination line
\* comes out of the stream translator as exactly N content_block_delta
\* events, in order and with the same texts, followed by exactly one
\* message_stop event and nothing after it.
C8_StreamOrderPreserved ==
    (stPc = "closed" /\ DeltasThenDone) => DataPayloads(stPipe) = ExpectedEvents

\* what holds of the one translator that parses its upstream's lines and
\* whose upstream body stays open
C8_OpenRouterOnly ==
    (stProvider = "openrouter" /\ stPc = "closed" /\ DeltasThenDone)
        => DataPayloads(stPipe) = ExpectedEvents


(***************************************************************************)
(* Specification of the handler of POST /v1/messages: validate, save,      *)
(* forward through the routed provider client, return the response.        *)
(***************************************************************************)
\* the checks of Handler.Messages; NothingWritten when the request passes
Rejection_noCredentialCheck(req) ==
    IF req.body = "nil" THEN httpError("Error reading request body", 400)
    ELSE IF req.body = "invalid" THEN writeErrorResponse("Invalid JSON", 400)
    ELSE NothingWritten

Rejection(req) ==
    IF req.body = "nil" THEN httpError("Error reading request body", 400)
    ELSE IF req.body = "invalid" THEN writeErrorResponse("Invalid JSON", 400)
    ELSE IF ~req.apiKey /\ ~req.auth
    THEN writeErrorResponse("API key (x-api-key header) or Authorization header required", 401)
    ELSE NothingWritten

HandlerRequests ==
    [body : {"nil", "invalid", "valid"}, apiKey : BOOLEAN, auth : BOOLEAN,
     stream : BOOLEAN, provider : Providers]

InitMessages ==
    /\ FpIdle /\ PmIdle /\ RouterIdle /\ StIdle /\ FwIdle /\ CcIdle /\ PlIdle /\ CfIdle /\ PgIdle /\ RtIdle /\ AgIdle /\ IsIdle
    /\ hReq \in HandlerRequests
    /\ hUp \in IF hReq.body = "valid" /\ (hReq.apiKey \/ hReq.auth)
               THEN UpstreamAnswers(hReq.provider, hReq.stream)
               ELSE {DefaultAnswer}
    /\ hPc = "start"
    /\ hClient = NothingWritten
    /\ hStore = EmptyStore
    /\ hUpCalls = 0
    /\ hResp = NoResponse
    /\ hStream = NoStream

\* the handler leaves the other components alone
MessagesFrame == UNCHANGED <<fpVars, pmVars, routerVars, stVars, fwVars, ccVars, plVars, cfVars, pgVars, rtVars, agVars, isVars>>

\* Handler.Messages up to its first return
MessagesReject ==
    /\ hPc = "start"
    /\ Rejection(hReq) # NothingWritten
    /\ hClient' = Rejection(hReq)
    /\ hPc' = "done"
    /\ UNCHANGED <<hReq, hUp, hStore, hUpCalls, hResp, hStream>>
    /\ MessagesFrame

\* Handler.Messages gives up when the request cannot be saved
MessagesSave_failureIsFatal ==
    /\ hPc = "start"
    /\ Rejection(hReq) = NothingWritten
    /\ \E ok \in BOOLEAN :
        /\ hStore' = SaveRequest(hStore, ok)
        /\ hPc' = IF ok THEN "forward" ELSE "done"
        /\ hClient' = IF ok THEN hClient
                      ELSE writeErrorResponse("Failed to save request", 500)
    /\ UNCHANGED <<hReq, hUp, hUpCalls, hResp, hStream>>
    /\ MessagesFrame

\* Handler.Messages: the request passes the checks and is saved
MessagesSave ==
    /\ hPc = "start"
    /\ Rejection(hReq) = NothingWritten
    /\ \E ok \in BOOLEAN : hStore' = SaveRequest(hStore, ok)
    /\ hPc' = "forward"
    /\ UNCHANGED <<hReq, hUp, hClient, hUpCalls, hResp, hStream>>
    /\ MessagesFrame

\* anthropicService.ForwardRequest refuses a request without credentials
\* before it calls the upstream
RefusedBeforeCall(req) == req.provider = "anthropic" /\ ~req.apiKey /\ ~req.auth

\* what ForwardRequest can return
ForwardResults(req, up) ==
    IF RefusedBeforeCall(req) THEN {ForwardError("no API key or authorization")}
    ELSE IF up.transport = "error" THEN {ForwardError("failed to forward request")}
    ELSE ProviderResponses(req.provider, req.stream, up.status, up.body)

\* Handler.Messages tells the client why forwarding failed
MessagesForwardFails_leaksCause ==
    /\ hPc = "forward"
    /\ \E r \in ForwardResults(hReq, hUp) :
        /\ r.err # "nil"
        /\ hResp' = r
        /\ hClient' = writeErrorResponse(r.err, 500)
    /\ hUpCalls' = IF RefusedBeforeCall(hReq) THEN hUpCalls ELSE hUpCalls + 1
    /\ hPc' = "done"
    /\ UNCHANGED <<hReq, hUp, hStore, hStream>>
    /\ MessagesFrame

\* ForwardRequest returns an error: 500 to the client
MessagesForwardFails ==
    /\ hPc = "forward"
    /\ \E r \in ForwardResults(hReq, hUp) :
        /\ r.err # "nil"
        /\ hResp' = r
    /\ hUpCalls' = IF RefusedBeforeCall(hReq) THEN hUpCalls ELSE hUpCalls + 1
    /\ hClient' = writeErrorResponse("Failed to forward request", 500)
    /\ hPc' = "done"
    /\ UNCHANGED <<hReq, hUp, hStore, hStream>>
    /\ MessagesFrame

\* ForwardRequest returns a response
MessagesForward ==
    /\ hPc = "forward"
    /\ \E r \in ForwardResults(hReq, hUp) :
        /\ r.err = "nil"
        /\ hResp' = r
    /\ hUpCalls' = hUpCalls + 1
    /\ hPc' = "respond"
    /\ UNCHANGED <<hReq, hUp, hClient, hStore, hStream>>
    /\ MessagesFrame

\* handleNonStreamingResponse
NonStreamingResponse ==
    /\ hPc = "respond"
    /\ ~hReq.stream
    /\ \E ok \in BOOLEAN :
        hStore' = UpdateRequestWithResponse(hStore,
                      ResponseLog(hResp.status, hResp.body, FALSE, <<>>, <<>>), ok)
    /\ hClient' = Written(hResp.status, hResp.body)
    /\ hPc' = "done"
    /\ UNCHANGED <<hReq, hUp, hUpCalls, hResp, hStream>>
    /\ MessagesFrame

\* handleStreamingResponse, resp.StatusCode != http.StatusOK
StreamingErrorResponse ==
    /\ hPc = "respond"
    /\ hReq.stream
    /\ hResp.status # 200
    /\ \E ok \in BOOLEAN :
        hStore' = UpdateRequestWithResponse(hStore,
                      ResponseLog(hResp.status, hResp.body, TRUE, <<>>, <<>>), ok)
    /\ hClient' = Written(hResp.status, hResp.body)
    /\ hPc' = "done"
    /\ UNCHANGED <<hReq, hUp, hUpCalls, hResp, hStream>>
    /\ MessagesFrame

\* the switch on event.Type in the scanner loop
Accumulate(acc, event) ==
    IF event.json # "anthropic_event" THEN acc
    ELSE IF event.type = "content_block_delta"
    THEN IF event.delta_type = "text_delta"
         THEN [acc EXCEPT !.text = Append(@, event.text)]
         ELSE IF event.delta_type = "input_json_delta" /\ event.index < Len(acc.toolCalls)
         THEN [acc EXCEPT !.toolCalls[event.index + 1].input = Append(@, event.input)]
         ELSE acc
    ELSE IF event.type = "content_block_start" /\ event.block_type = "tool_use"
    THEN [acc EXCEPT !.toolCalls =
              Append(@, [type |-> "tool_use", id |-> event.id, input |-> <<>>])]
    ELSE acc

\* handleStreamingResponse hands the record over inside the loop
StreamingLine_attachesEarly ==
    /\ hPc = "respond"
    /\ hReq.stream
    /\ hResp.status = 200
    /\ hStream.ended = "no"
    /\ hStream.pos < Len(hResp.body)
    /\ LET l == hResp.body[hStream.pos + 1]
           next == [hStream EXCEPT !.pos = @ + 1]
       IN  IF ~IsDataLine(l)
           THEN /\ hStream' = next
                /\ UNCHANGED <<hClient, hStore>>
           ELSE /\ hStream' = Accumulate([next EXCEPT !.chunks = Append(@, l)], l.payload)
                /\ hClient' = Written(200, hClient.body \o <<l, BlankLine>>)
                /\ hStore' = UpdateRequestWithResponse(hStore,
                                 ResponseLog(200, <<>>, TRUE, hStream'.chunks, <<>>), TRUE)
    /\ UNCHANGED <<hReq, hUp, hPc, hUpCalls, hResp>>
    /\ MessagesFrame

\* the loop stores every line it reads, forwarded or not
StreamingLine_storesEveryLine ==
    /\ hPc = "respond"
    /\ hReq.stream
    /\ hResp.status = 200
    /\ hStream.ended = "no"
    /\ hStream.pos < Len(hResp.body)
    /\ LET l == hResp.body[hStream.pos + 1]
           next == [hStream EXCEPT !.pos = @ + 1, !.chunks = Append(@, l)]
       IN  IF ~IsDataLine(l)
           THEN /\ hStream' = next
                /\ UNCHANGED hClient
           ELSE /\ hStream' = Accumulate(next, l.payload)
                /\ hClient' = Written(200, hClient.body \o <<l, BlankLine>>)
    /\ UNCHANGED <<hReq, hUp, hPc, hStore, hUpCalls, hResp>>
    /\ MessagesFrame

\* one turn of the scanner loop of handleStreamingResponse
StreamingLine ==
    /\ hPc = "respond"
    /\ hReq.stream
    /\ hResp.status = 200
    /\ hStream.ended = "no"
    /\ hStream.pos < Len(hResp.body)
    /\ LET l == hResp.body[hStream.pos + 1]
           next == [hStream EXCEPT !.pos = @ + 1]
       IN  IF ~IsDataLine(l)
           THEN /\ hStream' = next
                /\ UNCHANGED hClient
           ELSE /\ hStream' = Accumulate([next EXCEPT !.chunks = Append(@, l)], l.payload)
                /\ hClient' = Written(200, hClient.body \o <<l, BlankLine>>)
    /\ UNCHANGED <<hReq, hUp, hPc, hStore, hUpCalls, hResp>>
    /\ MessagesFrame

\* the client goes away while the response streams: the request's context is
\* cancelled; the loop's writes fail from then on and their errors are not
\* looked at
ClientDisconnects ==
    /\ hPc = "respond"
    /\ hReq.stream
    /\ hResp.status = 200
    /\ hStream.ended = "no"
    /\ ~hStream.gone
    /\ hStream' = [hStream EXCEPT !.gone = TRUE]
    /\ UNCHANGED <<hReq, hUp, hPc, hClient, hStore, hUpCalls, hResp>>
    /\ MessagesFrame

\* scanner.Scan() returns false with an error before the end of the body: the
\* upstream connection broke, or the request's context was cancelled
StreamBreaks ==
    /\ hPc = "respond"
    /\ hReq.stream
    /\ hResp.status = 200
    /\ hStream.ended = "no"
    /\ hStream.pos < Len(hResp.body)
    /\ hStream' = [hStream EXCEPT !.ended = "error"]
    /\ UNCHANGED <<hReq, hUp, hPc, hClient, hStore, hUpCalls, hResp>>
    /\ MessagesFrame

\* handleStreamingResponse gives up on a stream that broke
StreamingEnd_onlyAtEOF ==
    /\ hPc = "respond"
    /\ hReq.stream
    /\ hResp.status = 200
    /\ hStream.pos = Len(hResp.body) /\ hStream.ended = "no"
    /\ LET contentBlocks ==
               (IF hStream.text # <<>> THEN <<[type |-> "text", text |-> hStream.text]>>
                ELSE <<>>) \o hStream.toolCalls
       IN  \E ok \in BOOLEAN :
             hStore' = UpdateRequestWithResponse(hStore,
                           ResponseLog(200, <<>>, TRUE, hStream.chunks, contentBlocks), ok)
    /\ hClient' = Written(200, hClient.body)
    /\ hPc' = "done"
    /\ hStream' = [hStream EXCEPT !.ended = IF @ = "no" THEN "eof" ELSE @]
    /\ UNCHANGED <<hReq, hUp, hUpCalls, hResp>>
    /\ MessagesFrame

\* handleStreamingResponse after the loop
StreamingEnd ==
    /\ hPc = "respond"
    /\ hReq.stream
    /\ hResp.status = 200
    /\ hStream.pos = Len(hResp.body) \/ hStream.ended = "error"
    /\ LET contentBlocks ==
               (IF hStream.text # <<>> THEN <<[type |-> "text", text |-> hStream.text]>>
                ELSE <<>>) \o hStream.toolCalls
       IN  \E ok \in BOOLEAN :
             hStore' = UpdateRequestWithResponse(hStore,
                           ResponseLog(200, <<>>, TRUE, hStream.chunks, contentBlocks), ok)
    /\ hClient' = Written(200, hClient.body)
    /\ hPc' = "done"
    /\ hStream' = [hStream EXCEPT !.ended = IF @ = "no" THEN "eof" ELSE @]
    /\ UNCHANGED <<hReq, hUp, hUpCalls, hResp>>
    /\ MessagesFrame

NextMessages ==
    \/ MessagesReject
    \/ MessagesSave
    \/ MessagesForwardFails
    \/ MessagesForward
    \/ NonStreamingResponse
    \/ StreamingErrorResponse
    \/ StreamingLine
    \/ ClientDisconnects
    \/ StreamBreaks
    \/ StreamingEnd

SpecMessages == InitMessages /\ [][NextMessages]_vars

(***************************************************************************)
(* Claims about the handler.                                               *)
(***************************************************************************)
\* the upstream was called and answered with a status outside 2xx
UpstreamRefused ==
    /\ hUpCalls > 0
    /\ hUp.transport = "ok"
    /\ hUp.status \notin 200..299

\* C9: when the upstream answers a non-2xx status with a body, the client
\* receives that status and exactly that body, for every provider and for
\* streaming and non-streaming requests alike.
C9_NonSuccessPassthrough ==
    (hPc = "done" /\ UpstreamRefused) =>
        /\ hClient.status = hUp.status
        /\ hClient.body = hUp.body

\* the same, for the provider whose client forwards the upstream response
\* as it came
C9_AnthropicPassthrough ==
    (hPc = "done" /\ UpstreamRefused /\ hReq.provider = "anthropic") =>
        /\ hClient.status = hUp.status
        /\ hClient.body = hUp.body

NoCredentials(req) == ~req.apiKey /\ ~req.auth

IsErrorEnvelope(body) ==
    /\ Len(body) = 1
    /\ body[1].line = "raw"
    /\ body[1].payload.json = "error_envelope"

ForwardRequests ==
    [provider : Providers, headers : SUBSET HeaderNames, keyConfigured : BOOLEAN,
     proto : Protocols]

InitForward ==
    /\ FpIdle /\ PmIdle /\ RouterIdle /\ StIdle /\ HIdle /\ CcIdle /\ PlIdle /\ CfIdle /\ PgIdle /\ RtIdle /\ AgIdle /\ IsIdle
    /\ fwReq \in ForwardRequests
    /\ fwOut = NotSent

ForwardFrame == UNCHANGED <<fwReq, fpVars, pmVars, routerVars, stVars, hVars, ccVars, plVars, cfVars, pgVars, rtVars, agVars, isVars>>

\* what client.Do puts on the wire for the request the provider client built
UpstreamRequest(req) ==
    Sent(OnTheWire(ProviderHeaders(req.provider, req.headers, req.keyConfigured), req.proto))

\* anthropicService.ForwardRequest without x-api-key and Authorization
AnthropicRefuses ==
    /\ fwOut = NotSent
    /\ fwReq.provider = "anthropic"
    /\ {"x-api-key", "authorization"} \cap fwReq.headers = {}
    /\ fwOut' = Refused
    /\ ForwardFrame

AnthropicForward ==
    /\ fwOut = NotSent
    /\ fwReq.provider = "anthropic"
    /\ {"x-api-key", "authorization"} \cap fwReq.headers # {}
    /\ fwOut' = UpstreamRequest(fwReq)
    /\ ForwardFrame

OpenAIForward ==
    /\ fwOut = NotSent
    /\ fwReq.provider = "openai"
    /\ fwOut' = UpstreamRequest(fwReq)
    /\ ForwardFrame

OpenRouterForward ==
    /\ fwOut = NotSent
    /\ fwReq.provider = "openrouter"
    /\ fwOut' = UpstreamRequest(fwReq)
    /\ ForwardFrame

GeminiForward ==
    /\ fwOut = NotSent
    /\ fwReq.provider = "gemini"
    /\ fwOut' = UpstreamRequest(fwReq)
    /\ ForwardFrame

NextForward ==
    \/ AnthropicRefuses
    \/ AnthropicForward
    \/ OpenAIForward
    \/ OpenRouterForward
    \/ GeminiForward

SpecForward == InitForward /\ [][NextForward]_vars

(***************************************************************************)
(* Claims about the upstream request.                                      *)
(***************************************************************************)
\* the exclusion set: host, connection, proxy-*, content-length,
\* transfer-encoding, te, trailer, upgrade
InExclusionSet(name) ==
    \/ name \in {"host", "connection", "content-length", "transfer-encoding", "te",
                 "trailer", "upgrade"}
    \/ name \in {"proxy-connection", "proxy-authorization"}

\* C11: the upstream request carries every inbound header whose name is
\* outside the exclusion set and never carries an inbound header from it,
\* for every provider client.
C11_HeaderExclusion ==
    fwOut.sent =>
        /\ \A n \in fwReq.headers :
               ~InExclusionSet(n) => n \in NamesOf(fwOut.headers)
        /\ \A n \in fwReq.headers :
               InExclusionSet(n) => Inbound(n) \notin fwOut.headers

\* the same, for the one client that filters the inbound headers
C11_AnthropicExclusion ==
    (fwOut.sent /\ fwReq.provider = "anthropic") =>
        /\ \A n \in fwReq.headers :
               ~InExclusionSet(n) => n \in NamesOf(fwOut.headers)
        /\ \A n \in fwReq.headers :
               InExclusionSet(n) => Inbound(n) \notin fwOut.headers

\* the header that authenticates the proxy to each provider
AuthHeader(provider) == IF provider = "anthropic" THEN "x-api-key" ELSE "authorization"

\* C12: the upstream request's auth header, Content-Type and API-version
\* header have the value the provider client sets, never the value of a
\* forwarded inbound header of the same name, whether or not the proxy has
\* an API key configured.
C12_MandatedHeadersWin ==
    fwOut.sent =>
        /\ Mandated("content-type") \in fwOut.headers
        /\ Inbound("content-type") \notin fwOut.headers
        /\ fwReq.provider = "anthropic" =>
               /\ Mandated("anthropic-version") \in fwOut.headers
               /\ Inbound("anthropic-version") \notin fwOut.headers
        /\ fwReq.provider \in {"openai", "openrouter"} =>
               Inbound("authorization") \notin fwOut.headers

\* what holds of every client: Content-Type and, for Anthropic, the version
C12_ContentTypeAndVersion ==
    fwOut.sent =>
        /\ Mandated("content-type") \in fwOut.headers
        /\ Inbound("content-type") \notin fwOut.headers
        /\ fwReq.provider = "anthropic" =>
               /\ Mandated("anthropic-version") \in fwOut.headers
               /\ Inbound("anthropic-version") \notin fwOut.headers
        /\ fwReq.provider = "openrouter" =>
               Inbound("authorization") \notin fwOut.headers

(***************************************************************************)
(* Claims about the response record and the client's view.                 *)
(***************************************************************************)
\* the handler took the streaming loop
StreamedOK == hReq.stream /\ hResp.err = "nil" /\ hResp.status = 200

\* the lines of the response the handler has read: the whole body, or in the
\* streaming loop the lines scanned so far
BodyRead ==
    IF StreamedOK THEN SubSeq(hResp.body, 1, hStream.pos) ELSE hResp.body

\* the loop of handleStreamingResponse is over
StreamOver ==
    \/ hStream.pos = Len(hResp.body)
    \/ hStream.ended = "error"

\* the lines of a body that are not blank
NonBlank(ls) == SelectSeq(ls, LAMBDA l : l.line # "blank")
\* the data lines of a body
DataLines(ls) == SelectSeq(ls, IsDataLine)

\* C13: the response record of a request is handed to Persistence at most
\* once, and only once the whole upstream body (non-streaming) or the end of
\* the stream (streaming) has been read; what Persistence holds is never a
\* partial accumulation.
C13_ResponseWriteOnce ==
    /\ hStore.updateCalls <= 1
    /\ hStore.updateCalls = 1 =>
           /\ hPc = "done"
           /\ StreamedOK => StreamOver
    /\ hStore.response # <<>> =>
           /\ hStore.updateCalls = 1
           /\ IF StreamedOK
              THEN hStore.response[1].StreamingChunks = DataLines(BodyRead)
              ELSE hStore.response[1].BodyText = hResp.body

\* a stream of at least two data lines has been recorded
C13_Witness ==
    /\ hPc = "done"
    /\ StreamedOK
    /\ hStore.response # <<>>
    /\ Len(hStore.response[1].StreamingChunks) >= 2

RECURSIVE AsWritten(_)
AsWritten(ls) ==
    IF ls = <<>> THEN <<>>
    ELSE IF IsDataLine(Head(ls)) THEN <<Head(ls), BlankLine>> \o AsWritten(Tail(ls))
    ELSE AsWritten(Tail(ls))

ClientView(req, resp) ==
    IF req.body = "nil"
    THEN [status |-> 400,
          body |-> <<RawLine([json |-> "malformed", text |-> "Error reading request body"])>>]
    ELSE IF req.body = "invalid"
    THEN [status |-> 400, body |-> <<RawLine(ErrorEnvelope("Invalid JSON"))>>]
    ELSE IF NoCredentials(req)
    THEN [status |-> 401,
          body |-> <<RawLine(ErrorEnvelope(
                       "API key (x-api-key header) or Authorization header required"))>>]
    ELSE IF resp.err # "nil"
    THEN [status |-> 500, body |-> <<RawLine(ErrorEnvelope("Failed to forward request"))>>]
    ELSE IF req.stream /\ resp.status = 200
    THEN [status |-> 200, body |-> AsWritten(resp.body)]
    ELSE [status |-> resp.status, body |-> resp.body]

\* C18: the status and body the client receives do not depend on whether
\* SaveRequest and UpdateRequestWithResponse succeed, and a failed
\* SaveRequest does not stop the request from being forwarded.
C18_PersistenceFailuresHidden ==
    /\ hPc = "done" => hClient = ClientView(hReq, [hResp EXCEPT !.body = BodyRead])
    /\ (hPc = "done" /\ Rejection(hReq) = NothingWritten) =>
           /\ hStore.saveCalls = 1
           /\ hResp # NoResponse

\* a request whose row could not be saved was forwarded and answered
C18_Witness ==
    /\ hPc = "done"
    /\ hStore.saveCalls = 1
    /\ ~hStore.saved
    /\ hUpCalls = 1
    /\ hClient.status = 200
    /\ hClient.body # <<>>

\* the upstream was called and the call failed at transport level
TransportFailed == hUpCalls > 0 /\ hUp.transport = "error"

\* C19: when the forwarding attempt fails at transport level the client
\* receives a 5xx with a generic message that does not tell the cause, the
\* upstream is called once and not again, and no response record is attached.
C19_TransportError ==
    /\ hUpCalls <= 1
    /\ TransportFailed =>
           /\ hPc = "done"
           /\ hClient.status \in 500..599
           /\ hClient.body = <<[line |-> "raw",
                                payload |-> [json |-> "error_envelope",
                                             error |-> "Failed to forward request"]]>>
           /\ hStore.updateCalls = 0
           /\ hStore.response = <<>>

\* a saved request whose forwarding failed at transport level
C19_Witness ==
    /\ TransportFailed
    /\ hPc = "done"
    /\ hStore.saved
    /\ hClient.status = 500

(***************************************************************************)
(* Claims about malformed stream lines.                                    *)
(***************************************************************************)
IsMalformedLine(l) == IsDataLine(l) /\ l.payload = Malformed

\* the upstream body is text-delta lines and at least one malformed data
\* line, followed by one termination line
MalformedAmongDeltas ==
    LET ls == stUpstream.lines
    IN  /\ Len(ls) >= 2
        /\ ls[Len(ls)] = DataLine(DoneMarker)
        /\ stUpstream.finalNewline
        /\ \A i \in 1..(Len(ls) - 1) : IsTextDeltaLine(ls[i]) \/ IsMalformedLine(ls[i])
        /\ \E i \in 1..(Len(ls) - 1) : IsMalformedLine(ls[i])

\* the events of the well-formed lines of such a body, in order
EventsOfWellFormed ==
    LET good == SelectSeq(SubSeq(stUpstream.lines, 1, Len(stUpstream.lines) - 1),
                          IsTextDeltaLine)
    IN  [i \in 1..Len(good) |->
            DeltaEvent("content_block_delta", TextOfDeltaLine(good[i]))]
        \o <<MessageStop>>

\* C20: a data line that is not valid JSON produces no translated event, and
\* every well-formed line after it is still translated, in order, by the
\* stream translator of every provider client.
C20_MalformedLineDropped ==
    (stPc = "closed" /\ MalformedAmongDeltas) =>
        DataPayloads(stPipe) = EventsOfWellFormed

\* the same, for the translator whose upstream body stays open until the
\* worker is done and that parses the lines it reads
C20_OpenRouterDrops ==
    (stProvider = "openrouter" /\ stPc = "closed" /\ MalformedAmongDeltas) =>
        DataPayloads(stPipe) = EventsOfWellFormed

\* the texts of the well-formed text_delta events of a body, in order
RECURSIVE TextDeltas(_)
TextDeltas(ls) ==
    IF ls = <<>> THEN <<>>
    ELSE LET l == Head(ls)
             isDelta == /\ IsDataLine(l)
                        /\ l.payload.json = "anthropic_event"
                        /\ l.payload.type = "content_block_delta"
                        /\ l.payload.delta_type = "text_delta"
         IN  (IF isDelta THEN <<l.payload.text>> ELSE <<>>) \o TextDeltas(Tail(ls))

\* the accumulation loop of the pipeline: a malformed data line adds no
\* text, and the lines after it are still forwarded and accumulated in order
C20_AccumulationLoop ==
    (hPc = "done" /\ StreamedOK) =>
        /\ hStream.text = TextDeltas(BodyRead)
        /\ hStream.chunks = DataLines(BodyRead)
        /\ hClient.body = AsWritten(BodyRead)

(***************************************************************************)
(* Specification of the handler of POST /v1/chat/completions.              *)
(***************************************************************************)
M_claude3sonnet ==
    <<"c", "l", "a", "u", "d", "e", "-", "3", "-", "s", "o", "n", "n", "e", "t">>

\* model.ChatCompletionResponse as Handler.ChatCompletions fills it
ChatCompletionResponse(model) ==
    [json |-> "chat.completion",
     model |-> IF model = <<>> THEN M_claude3sonnet ELSE model,
     role |-> "assistant",
     content |-> "Hello! This is a test response from the refactored proxy server.",
     finish_reason |-> "stop"]

ChatRequests == [body : {"nil", "invalid", "valid"}, model : ModelNames \cup {<<>>}]

InitChat ==
    /\ FpIdle /\ PmIdle /\ RouterIdle /\ StIdle /\ HIdle /\ FwIdle /\ PlIdle /\ CfIdle /\ PgIdle /\ RtIdle /\ AgIdle /\ IsIdle
    /\ ccReq \in ChatRequests
    /\ ccPc = "start"
    /\ ccClient = NothingWritten
    /\ ccStore = EmptyStore

ChatFrame == UNCHANGED <<ccReq, fpVars, pmVars, routerVars, stVars, hVars, fwVars, plVars, cfVars, pgVars, rtVars, agVars, isVars>>

\* the body could not be read, or is not JSON
ChatCompletionsReject ==
    /\ ccPc = "start"
    /\ ccReq.body # "valid"
    /\ ccClient' = IF ccReq.body = "nil" THEN httpError("Error reading request body", 400)
                   ELSE writeErrorResponse("Invalid JSON", 400)
    /\ ccPc' = "done"
    /\ UNCHANGED ccStore
    /\ ChatFrame

\* the request is saved
ChatCompletionsSave ==
    /\ ccPc = "start"
    /\ ccReq.body = "valid"
    /\ \E ok \in BOOLEAN : ccStore' = SaveRequest(ccStore, ok)
    /\ ccPc' = "saved"
    /\ UNCHANGED ccClient
    /\ ChatFrame

\* the response is built, attached to the request and written with
\* writeJSONResponse
ChatCompletionsRespond ==
    /\ ccPc = "saved"
    /\ LET response == ChatCompletionResponse(ccReq.model)
       IN  /\ \E ok \in BOOLEAN :
                ccStore' = UpdateRequestWithResponse(ccStore,
                               ResponseLog(200, <<>>, FALSE, <<>>, <<response>>), ok)
           /\ ccClient' = Written(200, <<RawLine(response)>>)
    /\ ccPc' = "done"
    /\ ChatFrame

NextChat ==
    \/ ChatCompletionsReject
    \/ ChatCompletionsSave
    \/ ChatCompletionsRespond

SpecChat == InitChat /\ [][NextChat]_vars

\* C15: POST /v1/chat/completions is answered, for any body, with status 400
\* and the message that tells to use /v1/messages, and never with a
\* completion.
C15_ChatCompletionsRejected ==
    ccPc = "done" =>
        /\ ccClient.status = 400
        /\ ccClient.body =
               <<[line |-> "raw",
                  payload |-> [json |-> "error_envelope",
                               error |-> "This is an Anthropic proxy. Please use the /v1/messages endpoint instead of /v1/chat/completions"]]>>

(***************************************************************************)
(* Claims about the translation of non-streaming responses.                *)
(***************************************************************************)
\* the provider client has returned its translation of a 200 response
Translated ==
    /\ hUpCalls = 1
    /\ hPc \in {"respond", "done"}
    /\ ~hReq.stream
    /\ hResp.err = "nil"
    /\ hUp.transport = "ok"
    /\ hUp.status = 200

\* the upstream response, and the canonical response made of it
ProviderPayload == hUp.body[1].payload
CanonicalPayload == hResp.body[1].payload

\* the provider response answers with one assistant text
AnswersWithText ==
    \/ ProviderPayload.json = "openai_response" /\ ProviderPayload.hasText
    \/ ProviderPayload.json = "gemini_response" /\ Len(ProviderPayload.parts) = 1
    \/ ProviderPayload.json = "anthropic_message" /\ Len(ProviderPayload.content) = 1

AnswerText ==
    IF ProviderPayload.json = "openai_response" THEN ProviderPayload.content
    ELSE IF ProviderPayload.json = "gemini_response" THEN ProviderPayload.parts[1]
    ELSE ProviderPayload.content[1].text

NoUsageMetadata == ProviderPayload.usage.shape = "absent"

NoTextParts ==
    \/ ProviderPayload.json = "openai_response" /\ ~ProviderPayload.hasText
    \/ ProviderPayload.json = "gemini_response" /\ ProviderPayload.parts = <<>>

\* C17: for every provider, a provider response without usage metadata
\* translates to a canonical response whose input_tokens and output_tokens
\* are zero, and one without text parts to a canonical response whose
\* content array is empty.
C17_TranslationDefaults ==
    /\ (Translated /\ NoUsageMetadata) =>
           /\ CanonicalPayload.json = "anthropic_message"
           /\ CanonicalPayload.usage = [shape |-> "anthropic", input |-> 0, output |-> 0]
    /\ (Translated /\ NoTextParts) =>
           /\ CanonicalPayload.json = "anthropic_message"
           /\ CanonicalPayload.content = <<>>

\* the same, for the two clients that build the usage object themselves
C17_OpenRouterGeminiDefaults ==
    hReq.provider \in {"openrouter", "gemini"} =>
        /\ (Translated /\ NoUsageMetadata) =>
               /\ CanonicalPayload.json = "anthropic_message"
               /\ CanonicalPayload.usage = [shape |-> "anthropic", input |-> 0, output |-> 0]
        /\ (Translated /\ NoTextParts) =>
               /\ CanonicalPayload.json = "anthropic_message"
               /\ CanonicalPayload.content = <<>>

(***************************************************************************)
(* Lifetime of the streaming pipe                                          *)
(***************************************************************************)
\* the worker has stopped by itself: at upstream EOF, or on the line that
\* made it stop
WorkerRanToTheEnd ==
    \/ stPos = Len(stUpstream.lines)
    \/ /\ stPos >= 1
       /\ TranslateLine(stProvider, stUpstream.lines[stPos]).stop

\* C21: in every provider's streaming path the upstream body is closed by
\* nobody else while the worker still reads it, and the pipe is closed only
\* when the worker has read the upstream body to EOF or to a termination
\* marker
C21_PipeLifetime ==
    /\ stBodyClosed => stPc = "closed"
    /\ stPc = "closed" => WorkerRanToTheEnd

\* the OpenRouter and OpenAI workers own the upstream body: they alone close
\* it, after their loop has ended
C21_OpenRouterOpenAILifetime ==
    stProvider \in {"openrouter", "openai"} => C21_PipeLifetime

\* the Gemini worker ends with a read error before the first upstream line
C21_GeminiCutShort ==
    /\ stProvider = "gemini" /\ stPc = "closed" /\ stBodyClosed
    /\ stPos = 0 /\ Len(stUpstream.lines) > 0
    /\ stPipe = <<EventLine("error"), DataLine(ErrorText), BlankLine>>

(***************************************************************************)
(* A stream that ends early, for the accepted streaming requests whose     *)
(* upstream answers 200.  The handler's goroutine keeps running: a         *)
(* read of the upstream body returns a line, EOF or an error (the upstream *)
(* clients have a Timeout, and the request's context is cancelled when the *)
(* client goes away), so the loop and what follows it are taken when they  *)
(* stay enabled.                                                           *)
(***************************************************************************)
InitStreaming ==
    /\ InitMessages
    /\ hReq.body = "valid" /\ hReq.apiKey /\ ~hReq.auth /\ hReq.stream
    /\ hUp.transport = "ok" /\ hUp.status = 200

NextStreaming ==
    \/ MessagesSave
    \/ MessagesForward
    \/ StreamingLine
    \/ ClientDisconnects
    \/ StreamBreaks
    \/ StreamingEnd

SpecStreaming ==
    /\ InitStreaming
    /\ [][NextStreaming]_vars
    /\ WF_vars(MessagesSave)
    /\ WF_vars(MessagesForward)
    /\ WF_vars(StreamingLine)
    /\ WF_vars(StreamingEnd)

\* the response streams, and the client went away or the upstream broke
EndedEarly ==
    /\ StreamedOK
    /\ hPc \in {"respond", "done"}
    /\ hStream.gone \/ hStream.ended = "error"

\* the record of a stream that ended early holds the chunks and the text of
\* the lines read before the end, no more and no less
RecordOfWhatWasRead ==
    (EndedEarly /\ hPc = "done") =>
        /\ hStore.updateCalls = 1
        /\ hStore.response # <<>> =>
               /\ hStore.response[1].StreamingChunks = DataLines(BodyRead)
               /\ hStore.response[1].Body =
                      (IF TextDeltas(BodyRead) # <<>>
                       THEN <<[type |-> "text", text |-> TextDeltas(BodyRead)]>>
                       ELSE <<>>) \o hStream.toolCalls

\* C22: if the client disconnects or the upstream stream breaks after k lines
\* of a streaming response were accumulated, the handler still hands a
\* response record to Persistence, and the record holds exactly those k
\* chunks and the text assembled from them
C22_DisconnectRecorded ==
    /\ [] RecordOfWhatWasRead
    /\ EndedEarly ~> (hPc = "done" /\ hStore.updateCalls = 1)

\* a stream that broke after one text delta and before the rest of the body
\* was recorded with that one chunk
C22_Witness ==
    /\ hPc = "done"
    /\ StreamedOK
    /\ hStream.ended = "error"
    /\ hStream.pos < Len(hResp.body)
    /\ hStore.response # <<>>
    /\ Len(hStore.response[1].StreamingChunks) = 1
    /\ Len(TextDeltas(BodyRead)) = 1

\* the client went away in the middle of the stream and the record holds the
\* lines that were read until the read failed
C22_WitnessDisconnect ==
    /\ hPc = "done"
    /\ StreamedOK
    /\ hStream.gone
    /\ hStore.response # <<>>
    /\ Len(hStore.response[1].StreamingChunks) >= 1

(***************************************************************************)
(* SpecPipe: a translation worker, the io.Pipe it writes to and the        *)
(* handler that consumes the pipe.  An upstream body is a number of lines  *)
(* still to come; an endless one never sends EOF or a termination marker,  *)
(* and its lines still to come are those already buffered.                 *)
(***************************************************************************)
InitPipe ==
    /\ plProvider \in TranslatingProviders
    /\ plUpstream \in [left : 0..MaxLines, endless : BOOLEAN]
    /\ plWorker = "read"
    /\ plBody = "open"
    /\ plCtx = "live"
    /\ plClient = "connected"
    /\ plConsumer = "reading"
    /\ FpIdle /\ PmIdle /\ RouterIdle /\ StIdle /\ HIdle /\ FwIdle /\ CcIdle /\ CfIdle /\ PgIdle /\ RtIdle /\ AgIdle /\ IsIdle

PipeFrame == UNCHANGED <<plProvider, fpVars, pmVars, routerVars, stVars, hVars, fwVars, ccVars, cfVars, pgVars, rtVars, agVars, isVars>>

\* the worker's goroutine ends: defer pw.Close(), and for OpenRouter and
\* OpenAI the deferred Close of the upstream body
WorkerExit ==
    /\ plWorker' = "done"
    /\ plBody' = IF plProvider = "gemini" THEN plBody ELSE "closed"

\* what the worker does with a line it has read: an event to write, a line
\* it skips, or the termination marker, after whose event it stops.  The
\* OpenAI worker copies every line
LineKinds ==
    IF plProvider = "openai" THEN {"write"}
    ELSE IF plUpstream.endless THEN {"write", "skip"}
    ELSE {"write", "skip", "writeLast"}

\* GeminiProvider.handleStreamingResponse returns: defer geminiResp.Body.Close()
PipeGeminiDeferredClose ==
    /\ plProvider = "gemini" /\ plBody = "open"
    /\ plBody' = "closed"
    /\ UNCHANGED <<plUpstream, plWorker, plCtx, plClient, plConsumer>>
    /\ PipeFrame

\* one read of the upstream body by the worker: a line, EOF, or an error
\* when the body was closed or the request's context cancelled
WorkerRead ==
    /\ plWorker = "read"
    /\ \/ /\ plBody = "open"
          /\ plUpstream.left > 0 \/ (plUpstream.endless /\ plCtx = "live")
          /\ plUpstream' = IF plUpstream.endless /\ plCtx = "live" THEN plUpstream
                           ELSE [plUpstream EXCEPT !.left = @ - 1]
          /\ \E k \in LineKinds :
               /\ plWorker' = IF k = "skip" THEN "read" ELSE k
               /\ UNCHANGED plBody
       \/ /\ plBody = "open"
          /\ plUpstream.left = 0 /\ ~plUpstream.endless
          /\ WorkerExit
          /\ UNCHANGED plUpstream
       \/ /\ plBody = "closed" \/ plCtx = "cancelled"
          /\ IF plProvider = "gemini"
             THEN plWorker' = "writeLast" /\ UNCHANGED plBody
             ELSE WorkerExit
          /\ UNCHANGED plUpstream
    /\ UNCHANGED <<plCtx, plClient, plConsumer>>
    /\ PipeFrame

\* the handler's scanner takes what the worker writes: the pipe write returns
PipeTransfer ==
    /\ plWorker \in {"write", "writeLast"}
    /\ plConsumer = "reading"
    /\ IF plWorker = "writeLast" THEN WorkerExit
       ELSE plWorker' = "read" /\ UNCHANGED plBody
    /\ UNCHANGED <<plUpstream, plCtx, plClient, plConsumer>>
    /\ PipeFrame

\* a write to a pipe whose read side is closed returns io.ErrClosedPipe at
\* once: io.Copy stops on it, the Fprintf callers do not look at it
WriteFails ==
    /\ plWorker \in {"write", "writeLast"}
    /\ plConsumer # "reading"
    /\ IF plWorker = "writeLast" \/ plProvider = "openai" THEN WorkerExit
       ELSE plWorker' = "read" /\ UNCHANGED plBody
    /\ UNCHANGED <<plUpstream, plCtx, plClient, plConsumer>>
    /\ PipeFrame

\* the client goes away: the request's context is cancelled; the handler's
\* writes fail and it goes on reading the pipe
PipeClientDisconnects ==
    /\ plClient = "connected" /\ plConsumer = "reading"
    /\ plClient' = "gone"
    /\ plCtx' = "cancelled"
    /\ UNCHANGED <<plUpstream, plWorker, plBody, plConsumer>>
    /\ PipeFrame

\* the handler keeps the request's context alive when it returns
ConsumerGivesUp_keepsContext ==
    /\ plConsumer = "reading"
    /\ plConsumer' = "gaveUp"
    /\ UNCHANGED <<plUpstream, plWorker, plBody, plClient, plCtx>>
    /\ PipeFrame

\* the handler's scanner fails and Messages returns: defer resp.Body.Close()
\* closes the read side, and the return cancels the request's context
ConsumerGivesUp ==
    /\ plConsumer = "reading"
    /\ plConsumer' = "gaveUp"
    /\ plCtx' = "cancelled"
    /\ UNCHANGED <<plUpstream, plWorker, plBody, plClient>>
    /\ PipeFrame

\* the handler reads EOF from the pipe the worker closed, and returns
ConsumerSeesEOF ==
    /\ plConsumer = "reading" /\ plWorker = "done"
    /\ plConsumer' = "eof"
    /\ plCtx' = "cancelled"
    /\ UNCHANGED <<plUpstream, plWorker, plBody, plClient>>
    /\ PipeFrame

NextPipe ==
    \/ PipeGeminiDeferredClose
    \/ WorkerRead
    \/ PipeTransfer
    \/ WriteFails
    \/ PipeClientDisconnects
    \/ ConsumerGivesUp
    \/ ConsumerSeesEOF

\* the goroutines are scheduled, a pipe write returns when its reader reads
\* or is closed, and a read of the upstream body returns
SpecPipe ==
    /\ InitPipe
    /\ [][NextPipe]_vars
    /\ WF_vars(PipeGeminiDeferredClose)
    /\ WF_vars(WorkerRead)
    /\ WF_vars(PipeTransfer)
    /\ WF_vars(WriteFails)
    /\ WF_vars(ConsumerSeesEOF)

\* the consumer of the stream stopped
ConsumerStopped == plConsumer # "reading" \/ plClient = "gone"

\* C23: once the consumer of a streaming response stops (the client
\* disconnects, or the handler returns and closes the pipe's read side), the
\* translation worker eventually terminates and the upstream body is closed;
\* the worker does not stay blocked in a pipe write or go on reading
C23_NoLeakedProducer ==
    ConsumerStopped ~> (plWorker = "done" /\ plBody = "closed")

\* the handler gave up on an upstream that would never end by itself, and
\* the OpenRouter worker is over with the upstream body closed
C23_Witness ==
    /\ plProvider = "openrouter"
    /\ plUpstream.endless
    /\ plConsumer = "gaveUp"
    /\ plClient = "connected"
    /\ plWorker = "done"
    /\ plBody = "closed"

(***************************************************************************)
(* The grammar of what the client of a streaming response receives.        *)
(***************************************************************************)
\* a sequence of lines made of events `event: <type>`, `data: <json>`, blank
RECURSIVE IsCanonicalSSE(_)
IsCanonicalSSE(ls) ==
    \/ ls = <<>>
    \/ /\ Len(ls) >= 3
       /\ ls[1].line = "event"
       /\ IsDataLine(ls[2])
       /\ ls[3] = BlankLine
       /\ IsCanonicalSSE(SubSeq(ls, 4, Len(ls)))

\* C24: what the handler has written to the client of a streaming response
\* is, at every moment, a sequence of events in the canonical SSE grammar
\* (an `event: <type>` line, its `data: <json>` line, a blank line), one for
\* each event read from the provider client so far
C24_CanonicalSSE ==
    (StreamedOK /\ hPc \in {"respond", "done"}) =>
        /\ IsCanonicalSSE(hClient.body)
        /\ Len(hClient.body) = 3 * Len(DataLines(BodyRead))

\* the OpenRouter client produced one event in the canonical grammar and the
\* client received its data line without the event line
C24_EventLineLost ==
    /\ hPc = "done"
    /\ StreamedOK
    /\ hReq.provider = "openrouter"
    /\ IsCanonicalSSE(hResp.body)
    /\ Len(hResp.body) = 3
    /\ hClient.body = <<hResp.body[2], BlankLine>>

(***************************************************************************)
(* SpecConfig: config.Load over an environment and a YAML config file.     *)
(***************************************************************************)
\* getEnv: the variable's value, or the default when it is unset or empty
getEnv(env, k, defaultValue) == IF env[k] # "" THEN env[k] ELSE defaultValue

\* Config.loadFromFile: yaml.Unmarshal over the Config built so far sets
\* the fields the file gives and leaves the others
loadFromFile(cfg, file) ==
    IF ~file.found THEN cfg
    ELSE [k \in Settings |-> IF k \in file.keys THEN file.value[k] ELSE cfg[k]]

\* Load: the Config is first built from the environment and the built-in
\* defaults, then the file is unmarshalled over it
Load(env, file) ==
    loadFromFile([k \in Settings |-> getEnv(env, k, BuiltIn[k])], file)

\* the legacy cfg.Anthropic.BaseURL, synced at the end of Load
LegacyAnthropicBaseURL(cfg) == cfg["anthropic_base_url"]

EnvValues == [port |-> "9090", anthropic_base_url |-> "https://custom.anthropic.com",
              openai_api_key |-> "env-key"]
FileValues == [port |-> "8080", anthropic_base_url |-> "https://file.anthropic.com",
               openai_api_key |-> "file-key"]

InitConfig ==
    /\ cfEnv \in { [k \in Settings |-> IF k \in set THEN EnvValues[k] ELSE ""] :
                       set \in SUBSET Settings }
    /\ cfFile \in {MissingFile}
           \cup { ConfigFile(keys, FileValues) : keys \in SUBSET Settings }
    /\ cfOut = NotLoaded
    /\ FpIdle /\ PmIdle /\ RouterIdle /\ StIdle /\ HIdle /\ FwIdle /\ CcIdle /\ PlIdle /\ PgIdle /\ RtIdle /\ AgIdle /\ IsIdle

LoadConfig ==
    /\ ~cfOut.loaded
    /\ cfOut' = [loaded |-> TRUE, cfg |-> Load(cfEnv, cfFile),
                 legacy |-> LegacyAnthropicBaseURL(Load(cfEnv, cfFile))]
    /\ UNCHANGED <<cfEnv, cfFile, fpVars, pmVars, routerVars, stVars, hVars, fwVars, ccVars, plVars, pgVars, rtVars, agVars, isVars>>

NextConfig == LoadConfig

SpecConfig == InitConfig /\ [][NextConfig]_vars

\* the value the claim's order of precedence gives a setting
EnvFirst(k) ==
    IF cfEnv[k] # "" THEN cfEnv[k]
    ELSE IF cfFile.found /\ k \in cfFile.keys THEN cfFile.value[k]
    ELSE BuiltIn[k]

\* C25: a setting given both in the YAML config file and in an environment
\* variable has the environment variable's value in the Config that Load
\* returns; with no environment variable it has the file's value, and with
\* neither the built-in default
C25_EnvOverridesFile ==
    cfOut.loaded =>
        /\ \A k \in Settings : cfOut.cfg[k] = EnvFirst(k)
        /\ cfOut.legacy = EnvFirst("anthropic_base_url")

\* what Load does: the file's value wins over the environment variable's,
\* which wins over the built-in default
C25_FileOverridesEnv ==
    cfOut.loaded =>
        \A k \in Settings :
            cfOut.cfg[k] = IF cfFile.found /\ k \in cfFile.keys THEN cfFile.value[k]
                           ELSE IF cfEnv[k] # "" THEN cfEnv[k]
                           ELSE BuiltIn[k]

\* the case of the test: the three settings are given in the file and in the
\* environment, and Load returned the file's port
C25_FileWon ==
    /\ cfOut.loaded
    /\ cfFile.found /\ cfFile.keys = Settings
    /\ \A k \in Settings : cfEnv[k] # ""
    /\ cfOut.cfg["port"] = "8080"

(***************************************************************************)
(* SpecRequests: Handler.GetRequests.  Go's int is 64 bits wide; the model *)
(* computes in two's complement on WordBits bits, so that the values of a  *)
(* word can be enumerated; the arithmetic wraps around in the same way.    *)
(***************************************************************************)
WordBits == 6
MaxStored == 3

RECURSIVE Pow2(_)
Pow2(n) == IF n = 0 THEN 1 ELSE 2 * Pow2(n - 1)

MaxInt == Pow2(WordBits - 1) - 1
MinInt == 0 - Pow2(WordBits - 1)

\* the int that holds the result x of an addition or a multiplication
Wrap(x) == ((x - MinInt) % Pow2(WordBits)) + MinInt

\* the default limit of GetRequests
DefaultLimit == 10

\* requests[start:end] of a slice of length and capacity n: the elements, or
\* a run-time panic when the bounds are not 0 <= start <= end <= n
Slice(requests, start, end) ==
    IF 0 <= start /\ start <= end /\ end <= Len(requests)
    THEN [panic |-> FALSE, requests |-> SubSeq(requests, start + 1, end)]
    ELSE [panic |-> TRUE, requests |-> <<>>]

\* GetRequests after GetAllRequests returned the list
Paginate(requests, p, l) ==
    LET page == IF p < 1 THEN 1 ELSE p
        limit == IF l <= 0 THEN DefaultLimit ELSE l
        total == Len(requests)
        start == Wrap((page - 1) * limit)
        end == Wrap(start + limit)
        slice == IF start >= total THEN [panic |-> FALSE, requests |-> <<>>]
                 ELSE Slice(requests, start, IF end > total THEN total ELSE end)
    IN  [answered |-> TRUE, status |-> 200, panic |-> slice.panic,
         total |-> total, requests |-> slice.requests]

\* http.Error(w, "Failed to get requests", 500)
FailedToGet ==
    [answered |-> TRUE, status |-> 500, panic |-> FALSE, total |-> 0, requests |-> <<>>]

InitRequests ==
    /\ pgStored \in { [i \in 1..n |-> i] : n \in 0..MaxStored }
    /\ pgQuery \in [page : (0 - 1)..MaxInt, limit : (0 - 1)..MaxInt]
    /\ pgOut = NotAnswered
    /\ FpIdle /\ PmIdle /\ RouterIdle /\ StIdle /\ HIdle /\ FwIdle /\ CcIdle /\ PlIdle /\ CfIdle /\ RtIdle /\ AgIdle /\ IsIdle

RequestsFrame ==
    UNCHANGED <<pgStored, pgQuery, fpVars, pmVars, routerVars, stVars, hVars, fwVars, ccVars, plVars, cfVars, rtVars, agVars, isVars>>

GetRequests ==
    /\ ~pgOut.answered
    /\ pgOut' = Paginate(pgStored, pgQuery.page, pgQuery.limit)
    /\ RequestsFrame

\* GetAllRequests fails
GetRequestsFails ==
    /\ ~pgOut.answered
    /\ pgOut' = FailedToGet
    /\ RequestsFrame

NextRequests ==
    \/ GetRequests
    \/ GetRequestsFails

SpecRequests == InitRequests /\ [][NextRequests]_vars

\* the page the claim describes, computed on the integers
ExpectedPage ==
    LET page == IF pgQuery.page < 1 THEN 1 ELSE pgQuery.page
        limit == IF pgQuery.limit <= 0 THEN DefaultLimit ELSE pgQuery.limit
        n == Len(pgStored)
        from == (page - 1) * limit
        to == IF page * limit < n THEN page * limit ELSE n
    IN  IF from >= n THEN <<>> ELSE SubSeq(pgStored, from + 1, to)

\* C26: for every stored list of n requests and every page and limit, GET
\* /api/requests returns total = n and the elements at the positions
\* (page-1)*limit up to min(page*limit, n) in storage order, with page < 1
\* taken as 1 and limit <= 0 as 10, and it never indexes outside the list
C26_Pagination ==
    (pgOut.answered /\ pgOut.status = 200) =>
        /\ ~pgOut.panic
        /\ pgOut.total = Len(pgStored)
        /\ pgOut.requests = ExpectedPage

\* the same, for the queries whose (page-1)*limit and start+limit fit an int
C26_PaginationInRange ==
    LET page == IF pgQuery.page < 1 THEN 1 ELSE pgQuery.page
        limit == IF pgQuery.limit <= 0 THEN DefaultLimit ELSE pgQuery.limit
    IN  (pgOut.answered /\ pgOut.status = 200 /\ (page - 1) * limit + limit <= MaxInt) =>
            /\ ~pgOut.panic
            /\ pgOut.total = Len(pgStored)
            /\ pgOut.requests = ExpectedPage

\* page = MaxInt and limit = 2: (page-1)*limit wraps to -4 and the slice
\* expression panics
C26_SliceOutOfRange ==
    /\ pgOut.answered /\ pgOut.status = 200
    /\ pgQuery.page = MaxInt /\ pgQuery.limit = 2
    /\ Len(pgStored) = 2
    /\ pgOut.panic

(***************************************************************************)
(* SpecTranslate: the translation of an AnthropicRequest into the body of  *)
(* the upstream request, by each provider client.  Texts are sequences of  *)
(* characters.                                                             *)
(***************************************************************************)
MaxMessages == 2

\* a content block: a text block, or a block of another type (an image, a
\* tool result), whose Text field is empty
ContentBlock(type, text) == [type |-> type, text |-> text]
\* the content of a message: a JSON string, or an array of blocks
StringContent(text) == [form |-> "string", text |-> text, blocks |-> <<>>]
BlocksContent(blocks) == [form |-> "blocks", text |-> <<>>, blocks |-> blocks]

\* AnthropicMessage.GetContentBlocks: the blocks of the message, a string
\* content being one text block
GetContentBlocks(msg) ==
    IF msg.content.form = "string" THEN <<ContentBlock("text", msg.content.text)>>
    ELSE msg.content.blocks

\* the texts of the text blocks, in order
TextsOfBlocks(blocks) ==
    LET texts == SelectSeq(blocks, LAMBDA b : b.type = "text")
    IN  [i \in 1..Len(texts) |-> texts[i].text]

\* convertAnthropicToOpenAI: one system message per system block, then one
\* message per conversation message, with the Text of its first block
convertAnthropicToOpenAI(req) ==
    [messages |->
        [i \in 1..Len(req.System) |-> [role |-> "system", content |-> req.System[i]]]
        \o [i \in 1..Len(req.Messages) |->
               LET contentBlocks == GetContentBlocks(req.Messages[i])
               IN  [role |-> req.Messages[i].role,
                    content |-> IF Len(contentBlocks) > 0 THEN contentBlocks[1].text
                                ELSE <<>>]]]

\* systemText += sysMsg.Text + "\n" over the system blocks, then TrimSpace
SystemText(system) ==
    TrimSpace(Concat([i \in 1..Len(system) |-> system[i] \o <<"\n">>]))

\* convertAnthropicToOpenRouter: one system message when there is a system
\* block, then one message per conversation message, with its string
\* content or the concatenation of the texts of its text items
convertAnthropicToOpenRouter(req) ==
    [messages |->
        (IF Len(req.System) > 0
         THEN <<[role |-> "system", content |-> SystemText(req.System)]>>
         ELSE <<>>)
        \o [i \in 1..Len(req.Messages) |->
               LET c == req.Messages[i].content
               IN  [role |-> req.Messages[i].role,
                    content |-> IF c.form = "string" THEN c.text
                                ELSE Concat(TextsOfBlocks(c.blocks))]],
     route |-> "fallback"]

\* convertAnthropicToGemini: one entry of contents per conversation message,
\* with one part per text item, and the system text as systemInstruction
convertAnthropicToGemini(req) ==
    [contents |->
        [i \in 1..Len(req.Messages) |->
            LET c == req.Messages[i].content
            IN  [role |-> IF req.Messages[i].role = "assistant" THEN "model" ELSE "user",
                 parts |-> IF c.form = "string" THEN <<c.text>>
                           ELSE TextsOfBlocks(c.blocks)]],
     systemInstruction |->
        IF Len(req.System) > 0 THEN <<SystemText(req.System)>> ELSE <<>>]

SystemChoices == {<<>>, <<<<"s">>>>, <<<<"s">>, <<"t", " ">>>>}
ContentChoices ==
    { StringContent(<<"a">>),
      BlocksContent(<<ContentBlock("text", <<"a">>)>>),
      BlocksContent(<<ContentBlock("text", <<"a">>), ContentBlock("text", <<"b">>)>>),
      BlocksContent(<<ContentBlock("image", <<>>), ContentBlock("text", <<"b">>)>>),
      BlocksContent(<<>>) }
MessageChoices == [role : {"user", "assistant"}, content : ContentChoices]

InitTranslate ==
    /\ rtProvider \in TranslatingProviders
    /\ rtReq \in [System : SystemChoices, Messages : SeqsUpTo(MessageChoices, MaxMessages)]
    /\ rtOut = NotTranslated
    /\ FpIdle /\ PmIdle /\ RouterIdle /\ StIdle /\ HIdle /\ FwIdle /\ CcIdle /\ PlIdle /\ CfIdle /\ PgIdle /\ AgIdle /\ IsIdle

TranslateFrame ==
    UNCHANGED <<rtProvider, rtReq, fpVars, pmVars, routerVars, stVars, hVars, fwVars, ccVars, plVars, cfVars, pgVars, agVars, isVars>>

OpenAITranslate ==
    /\ rtProvider = "openai" /\ ~rtOut.done
    /\ rtOut' = [done |-> TRUE, body |-> convertAnthropicToOpenAI(rtReq)]
    /\ TranslateFrame

OpenRouterTranslate ==
    /\ rtProvider = "openrouter" /\ ~rtOut.done
    /\ rtOut' = [done |-> TRUE, body |-> convertAnthropicToOpenRouter(rtReq)]
    /\ TranslateFrame

GeminiTranslate ==
    /\ rtProvider = "gemini" /\ ~rtOut.done
    /\ rtOut' = [done |-> TRUE, body |-> convertAnthropicToGemini(rtReq)]
    /\ TranslateFrame

NextTranslate ==
    \/ OpenAITranslate
    \/ OpenRouterTranslate
    \/ GeminiTranslate

SpecTranslate == InitTranslate /\ [][NextTranslate]_vars

\* the providers whose dialect has a string as a message's content
NoBlockModel == {"openai", "openrouter"}

\* the conversation messages with all the text of each, in order
CollapsedConversation ==
    [i \in 1..Len(rtReq.Messages) |->
        [role |-> rtReq.Messages[i].role,
         content |-> Concat(TextsOfBlocks(GetContentBlocks(rtReq.Messages[i])))]]

\* the messages of a body from the first that is no system message on
RECURSIVE AfterSystem(_)
AfterSystem(ms) ==
    IF ms = <<>> \/ Head(ms).role # "system" THEN ms ELSE AfterSystem(Tail(ms))

\* the system prompt comes first, and the conversation messages follow in
\* their order, with their roles and all their text
KeepsAllText ==
    /\ Len(rtReq.System) > 0 =>
           /\ rtOut.body.messages # <<>>
           /\ rtOut.body.messages[1].role = "system"
    /\ AfterSystem(rtOut.body.messages) = CollapsedConversation

\* C27: for every provider whose dialect has no block model the translated
\* request has the system prompt before the conversation messages, the
\* conversation messages in their original order with their roles, and as
\* each message's content the concatenation, in order, of all the text
\* blocks of that message
C27_AllTextInOrder ==
    (rtOut.done /\ rtProvider \in NoBlockModel) => KeepsAllText

\* the same, for the OpenRouter client
C27_OpenRouterKeepsText ==
    (rtOut.done /\ rtProvider = "openrouter") => KeepsAllText

\* the OpenAI client translated a message of two text blocks and kept the
\* first
C27_FirstBlockOnly ==
    /\ rtOut.done /\ rtProvider = "openai"
    /\ rtReq.System = <<>>
    /\ Len(rtReq.Messages) = 1
    /\ Len(TextsOfBlocks(GetContentBlocks(rtReq.Messages[1]))) = 2
    /\ rtOut.body.messages[1].content = <<"a">>

(***************************************************************************)
(* The structured body of a recorded stream.                               *)
(***************************************************************************)
\* a well-formed event of the given type on a data line
IsEventLine(l, type) ==
    /\ IsDataLine(l)
    /\ l.payload.json = "anthropic_event"
    /\ l.payload.type = type

\* the inputs of the input_json_delta events of stream index i that come
\* after the block of that index was opened at line from
InputsFor(ls, i, from) ==
    LET later == SubSeq(ls, from + 1, Len(ls))
        deltas == SelectSeq(later, LAMBDA l :
                      /\ IsEventLine(l, "content_block_delta")
                      /\ l.payload.delta_type = "input_json_delta"
                      /\ l.payload.index = i)
    IN  [k \in 1..Len(deltas) |-> deltas[k].payload.input]

\* the positions of the tool_use starts in a body, in order
RECURSIVE StartPositions(_, _)
StartPositions(ls, n) ==
    IF n > Len(ls) THEN <<>>
    ELSE (IF IsEventLine(ls[n], "content_block_start") THEN <<n>> ELSE <<>>)
         \o StartPositions(ls, n + 1)

\* one tool-call block per tool_use start, each with the inputs of its own
\* stream index
ExpectedToolCalls(ls) ==
    LET at == StartPositions(ls, 1)
    IN  [k \in 1..Len(at) |->
            [type |-> "tool_use", id |-> ls[at[k]].payload.id,
             input |-> InputsFor(ls, ls[at[k]].payload.index, at[k])]]

\* the structured body the claim describes for the lines read
ExpectedBody(ls) ==
    (IF TextDeltas(ls) # <<>> THEN <<[type |-> "text", text |-> TextDeltas(ls)]>>
     ELSE <<>>) \o ExpectedToolCalls(ls)

\* C28: the structured body of a recorded stream is one text block with the
\* in-order concatenation of all text_delta texts (none when empty), then
\* one tool-call block per content_block_start of type tool_use in arrival
\* order, each holding the input_json_delta inputs of its own stream index
C28_StreamReassembly ==
    (hPc = "done" /\ StreamedOK /\ hStore.response # <<>>) =>
        hStore.response[1].Body = ExpectedBody(BodyRead)

\* the text block and the number and order of the tool-call blocks are as
\* the claim says
C28_TextAndBlocks ==
    (hPc = "done" /\ StreamedOK /\ hStore.response # <<>>) =>
        LET body == hStore.response[1].Body
            expected == ExpectedBody(BodyRead)
        IN  /\ Len(body) = Len(expected)
            /\ \A k \in 1..Len(body) :
                   /\ body[k].type = expected[k].type
                   /\ body[k].type = "text" => body[k] = expected[k]
                   /\ body[k].type = "tool_use" => body[k].id = expected[k].id

\* a tool_use block opened with stream index 1, its input_json_delta: the
\* recorded block has no input
C28_InputLost ==
    /\ hPc = "done" /\ StreamedOK /\ hStore.response # <<>>
    /\ hStream.ended = "eof"
    /\ hResp.body = <<DataLine(ToolUseStart(1, "toolu_1")), DataLine(InputJSONDelta(1, "{}"))>>
    /\ hStore.response[1].Body = <<[type |-> "tool_use", id |-> "toolu_1", input |-> <<>>]>>

(***************************************************************************)
(* SpecAgree: an agent definition file "<metadata>\n---\n<P>" is loaded    *)
(* for a mapped agent, and a Claude Code request then carries P, or P and  *)
(* a Notes: section, as its second system block.                           *)
(***************************************************************************)
\* what a prompt is made of: text, white space, a "---" line, a marker
AgreePieces == { <<"a">>, <<" ">>, <<"\n">>, AgentFileSep, NotesMarker1 }

\* the agent definition file of prompt P
AgentFile(P) == <<"m">> \o AgentFileSep \o P

\* the router that loaded the file for code-reviewer, mapped to gpt-4o
AgreeRouter(P) ==
    NewModelRouter(TRUE, {"anthropic", "openai"},
                   [a \in {"code-reviewer"} |-> M_gpt4o],
                   MkDisk(File(AgentFile(P)), NoFile, NoFile, NoFile),
                   <<"code-reviewer">>)

\* the request of Claude Code for that agent
AgreeRequest(P, S) ==
    [Model |-> M_claude3opus, System |-> <<Block(Preamble), Block(P \o S)>>]

InitAgree ==
    /\ agPrompt \in TextsOf(AgreePieces, MaxPieces)
    /\ agNotes \in {<<>>} \cup NotesSuffixes
    /\ agOut = NotCalled
    /\ FpIdle /\ PmIdle /\ RouterIdle /\ StIdle /\ HIdle /\ FwIdle /\ CcIdle /\ PlIdle /\ CfIdle /\ PgIdle /\ RtIdle /\ IsIdle

AgreeRoute ==
    /\ ~agOut.called
    /\ LET out == DetermineRoute(AgreeRouter(agPrompt), AgreeRequest(agPrompt, agNotes))
       IN  agOut' = [called |-> TRUE, decision |-> out.decision, err |-> out.err]
    /\ UNCHANGED <<agPrompt, agNotes, fpVars, pmVars, routerVars, stVars, hVars, fwVars, ccVars, plVars, cfVars, pgVars, rtVars, isVars>>

NextAgree == AgreeRoute

SpecAgree == InitAgree /\ [][NextAgree]_vars

\* the request went to the agent's target model
RoutedToAgent ==
    /\ agOut.err = NoError
    /\ agOut.decision.TargetModel = M_gpt4o
    /\ agOut.decision.Provider = "openai"

\* C29: for every agent definition file "<metadata>\n---\n<P>" loaded for a
\* mapped agent, a Claude Code request whose second system block is P, or P
\* followed by a Notes: section, is routed to the agent's target model,
\* whatever P contains
C29_FingerprintsAgree ==
    agOut.called => RoutedToAgent

\* the same, for the prompts that hold no "---" line and that do not begin
\* with a Notes: marker once white space is set aside
C29_PlainPromptsAgree ==
    (/\ agOut.called
     /\ ~Contains(agPrompt, AgentFileSep)
     /\ ~HasPrefix(TrimSpace(agPrompt), <<"N", "o", "t", "e", "s", ":">>)) => RoutedToAgent

\* a prompt with a "---" line: the table holds the fingerprint of what
\* stands before that line, and the request for the whole prompt is routed
\* by its own model
C29_TruncatedAtLoad ==
    /\ agOut.called
    /\ agPrompt = <<"a">> \o AgentFileSep
    /\ agNotes = <<>>
    /\ DOMAIN AgreeRouter(agPrompt).customAgentPrompts = {hashString(<<"a">>)}
    /\ agOut.decision.TargetModel = M_claude3opus

(***************************************************************************)
(* SpecIsolation: concurrent Messages requests and ClearRequests calls     *)
(* over the requests table.  A RequestID is 8 bytes of crypto/rand; as for *)
(* the digest of hashString, two draws are taken to differ.                *)
(***************************************************************************)
MaxRequests == 2

RequestNumbers == 1..MaxRequests
\* the ids that can be drawn: more than there are requests
RequestIDs == 1..(MaxRequests + 1)

NoRow == [present |-> FALSE, of |-> 0, response |-> <<>>]

\* INSERT INTO requests (id, ...): fails on an id already there
InsertRow(rows, id, r, ok) ==
    IF ok /\ ~rows[id].present
    THEN [rows EXCEPT ![id] = [present |-> TRUE, of |-> r, response |-> <<>>]]
    ELSE rows

\* an update that inserts the row when it is not there
UpdateRow_upserts(rows, id, r, ok) ==
    IF ok
    THEN [rows EXCEPT ![id] = [present |-> TRUE, of |-> r, response |-> <<r>>]]
    ELSE rows

\* UPDATE requests SET response = ? WHERE id = ?: no row, no change
UpdateRow(rows, id, r, ok) ==
    IF ok /\ rows[id].present
    THEN [rows EXCEPT ![id].response = <<r>>]
    ELSE rows

\* DELETE FROM requests
DeleteRows(rows) == [id \in DOMAIN rows |-> NoRow]

InitIsolation ==
    /\ isReq = [r \in RequestNumbers |-> [pc |-> "start", id |-> 0]]
    /\ isRows = [id \in RequestIDs |-> NoRow]
    /\ FpIdle /\ PmIdle /\ RouterIdle /\ StIdle /\ HIdle /\ FwIdle /\ CcIdle /\ PlIdle /\ CfIdle /\ PgIdle /\ RtIdle /\ AgIdle

IsolationFrame ==
    UNCHANGED <<fpVars, pmVars, routerVars, stVars, hVars, fwVars, ccVars, plVars, cfVars, pgVars, rtVars, agVars>>

\* requestID := generateRequestID()
GenerateRequestID(r) ==
    /\ isReq[r].pc = "start"
    /\ \E id \in RequestIDs :
         /\ \A q \in RequestNumbers : isReq[q].id # id
         /\ isReq' = [isReq EXCEPT ![r] = [pc |-> "save", id |-> id]]
    /\ UNCHANGED isRows
    /\ IsolationFrame

\* h.storageService.SaveRequest(requestLog); a failure is logged
IsolatedSave(r) ==
    /\ isReq[r].pc = "save"
    /\ \E ok \in BOOLEAN : isRows' = InsertRow(isRows, isReq[r].id, r, ok)
    /\ isReq' = [isReq EXCEPT ![r].pc = "forward"]
    /\ IsolationFrame

\* the forwarding fails: the handler returns without a response record
IsolatedForwardFails(r) ==
    /\ isReq[r].pc = "forward"
    /\ isReq' = [isReq EXCEPT ![r].pc = "done"]
    /\ UNCHANGED isRows
    /\ IsolationFrame

\* the response was read: UpdateRequestWithResponse(requestLog)
IsolatedRespond(r) ==
    /\ isReq[r].pc = "forward"
    /\ \E ok \in BOOLEAN : isRows' = UpdateRow(isRows, isReq[r].id, r, ok)
    /\ isReq' = [isReq EXCEPT ![r].pc = "done"]
    /\ IsolationFrame

\* DELETE /api/requests: ClearRequests
IsolatedClear ==
    /\ isRows' = DeleteRows(isRows)
    /\ isRows' # isRows
    /\ UNCHANGED isReq
    /\ IsolationFrame

NextIsolation ==
    \/ \E r \in RequestNumbers : GenerateRequestID(r)
    \/ \E r \in RequestNumbers : IsolatedSave(r)
    \/ \E r \in RequestNumbers : IsolatedForwardFails(r)
    \/ \E r \in RequestNumbers : IsolatedRespond(r)
    \/ IsolatedClear

SpecIsolation == InitIsolation /\ [][NextIsolation]_vars

\* every response in the table is on the record of the request it answers
ResponsesOnOwnRecords ==
    \A id \in RequestIDs :
        (isRows[id].present /\ isRows[id].response # <<>>) =>
            /\ isRows[id].response = <<isRows[id].of>>
            /\ isReq[isRows[id].of].id = id

\* a record appears only by the SaveRequest of its own request, and without
\* a response
RecordsOnlySaved ==
    \A id \in RequestIDs :
        (~isRows[id].present /\ isRows'[id].present) =>
            /\ isRows'[id].response = <<>>
            /\ \E r \in RequestNumbers :
                 /\ isReq[r].pc = "save" /\ isReq[r].id = id
                 /\ isRows'[id].of = r

\* a response is written only on a record that is there, by its own request
ResponsesOnlyByOwner ==
    \A id \in RequestIDs :
        isRows'[id].response # isRows[id].response =>
            \/ ~isRows'[id].present
            \/ /\ isRows[id].present
               /\ isRows'[id].of = isRows[id].of
               /\ isReq[isRows[id].of].pc = "forward"
               /\ isRows'[id].response = <<isRows[id].of>>

\* C30: for any interleaving of concurrent Messages requests and of
\* ClearRequests calls, a response record is stored only on the persisted
\* record of the request it answers: it never overwrites the response of
\* another request's record, and never recreates a record that was deleted
\* or never saved
C30_RequestIsolation ==
    /\ [] ResponsesOnOwnRecords
    /\ [][RecordsOnlySaved /\ ResponsesOnlyByOwner]_vars

\* two requests in flight: the first one's record was deleted before its
\* response came and stays away, the second one's record holds its response
C30_Witness ==
    /\ isReq[1].pc = "done" /\ isReq[2].pc = "done"
    /\ ~isRows[isReq[1].id].present
    /\ isRows[isReq[2].id].present
    /\ isRows[isReq[2].id].response = <<2>>

====
